---- MODULE Spec2Model ----
(***************************************************************************)
(* Verification model of the rueo_global article parser                    *)
(* (backend/app/parsing, backend/app/importer.py).                         *)
(*                                                                         *)
(* Text is modelled as a sequence of one-character strings, so that        *)
(* strip(), the regular expressions and the character loops of the source  *)
(* are computed the way the source computes them.  Cyrillic literals of    *)
(* the source are written with Latin stand-ins (noted where they occur).   *)
(*                                                                         *)
(* The module holds one state machine per component; each specification    *)
(* SpecXxx drives one machine and leaves the other machines' variables     *)
(* at their initial value.                                                 *)
(***************************************************************************)
EXTENDS Integers, Sequences, FiniteSets, TLC

VARIABLES
    \* build_raw_tree (parser_v2.0_clean.py)
    input,        \* the lines handed to build_raw_tree so far
    nodes,        \* every node created, in creation order: [text, indent, parent]
    stack,        \* the builder's stack: indices into nodes
    \* TemplateRegistry.select and ParsingPipeline.parse_article
    chunk,        \* the article chunk: a sequence of lines
    pc,           \* position of the single call: "start" | "done"
    selected,     \* name of the template select returned ("" before the call)
    article,      \* the Article parse_article returned
    \* register_label and the process-wide diagnostics state
    KNOWN_SHORTENINGS,      \* the abbreviation table (its keys)
    LOGGED_UNKNOWN_LABELS,  \* set of normalized labels already warned about
    parsing_issues,         \* the issue log: sequence of [type, label, at]
    calls,                  \* history: every label_text passed to register_label
    parsed,                 \* history: [segs, result, logged] per post-processed line
    \* _detect_structure_issues (importer.py)
    slines,       \* the file's lines
    idx,          \* loop index (0-based, as in the source)
    current_headers, \* header block seen since the last blank line
    issues,       \* issues recorded so far
    spc,          \* "scan" | "done"
    \* normalize_article
    nin,          \* the Article handed to normalize_article
    nout1,        \* normalize_article(nin)
    nout2,        \* normalize_article(normalize_article(nin))
    npc,          \* "start" | "once" | "twice"
    \* the rich-text tokenizers
    ttext,        \* the text handed to the tokenizer
    tmode,        \* the call's flags: [preserve_punctuation, italic_open]
    tsegs,        \* the returned segments
    tpc,          \* "start" | "done"
    \* tilde expansion (normalization.py)
    hraw,         \* the raw lemma of the Headword
    eo,           \* the eo text of the Illustration under it
    eo_expanded,  \* the expanded example strings
    xpc,          \* "start" | "done"
    \* the import endpoint (admin.py)
    running,      \* _state["running"]
    observed,     \* per request: the value of state["running"] it read
    rpc,          \* per request: position in trigger_import and its task
    \* stitch_multiline_italic_blocks
    stitched,     \* the stitched tree the call returned
    visited,      \* per raw node: the flags the stitcher wrote on it
    sopen,        \* the italic_open argument of the call
    stpc,         \* "build" | "stitched"
    \* classify_node
    cnode,        \* the stitched node handed to classify_node
    cctx,         \* its in_note_context argument
    cresult,      \* the node it returned
    cpc,          \* "start" | "done"
    \* process_final_tree
    fbody,        \* the nodes process_final_tree returned
    fpc,          \* "build" | "done"
    \* normalize_article and its caller
    argument,     \* the article object the caller handed to normalize_article
    returned,     \* the article normalize_article returned
    kpc,          \* "start" | "done"
    \* split_articles_by_empty_lines
    source_text,  \* the content of the dictionary file
    articles,     \* the chunks the call returned
    apc,          \* "start" | "done"
    \* parse_rich_text of the legacy parser, on the text and mode of ttext, tmode
    lsegs,        \* the segments the legacy parse_rich_text returned
    lpc           \* "start" | "done"

treeVars == <<input, nodes, stack>>
pipeVars == <<chunk, pc, selected, article>>
labelVars == <<KNOWN_SHORTENINGS, LOGGED_UNKNOWN_LABELS, parsing_issues, calls, parsed>>
structVars == <<slines, idx, current_headers, issues, spc>>
normVars == <<nin, nout1, nout2, npc>>
tokVars == <<ttext, tmode, tsegs, tpc>>
tildeVars == <<hraw, eo, eo_expanded, xpc>>
importVars == <<running, observed, rpc>>
stitchVars == <<stitched, visited, sopen, stpc>>
classVars == <<cnode, cctx, cresult, cpc>>
finalVars == <<fbody, fpc>>
copyVars == <<argument, returned, kpc>>
splitVars == <<source_text, articles, apc>>
legacyVars == <<lsegs, lpc>>
restVars == <<copyVars, splitVars, legacyVars>>
lateVars == <<stitchVars, classVars, finalVars, restVars>>
extraVars == <<tildeVars, importVars, lateVars>>
vars == <<treeVars, pipeVars, labelVars, structVars, normVars, tokVars, extraVars>>

NoArticle == [headword |-> "unset", body |-> <<>>]

\* Every machine at rest: the value each specification gives the machines it
\* does not drive.
IdleTree == input = <<>> /\ nodes = <<>> /\ stack = <<>>
IdlePipe == chunk = <<>> /\ pc = "idle" /\ selected = "" /\ article = NoArticle
IdleLabel ==
    /\ KNOWN_SHORTENINGS = {}
    /\ LOGGED_UNKNOWN_LABELS = {}
    /\ parsing_issues = <<>>
    /\ calls = <<>>
    /\ parsed = <<>>
IdleStruct ==
    /\ slines = <<>>
    /\ idx = 0
    /\ current_headers = <<>>
    /\ issues = <<>>
    /\ spc = "idle"
IdleNorm == nin = NoArticle /\ nout1 = NoArticle /\ nout2 = NoArticle /\ npc = "idle"
NoMode == [preserve_punctuation |-> FALSE, italic_open |-> FALSE]
IdleTok == ttext = <<>> /\ tmode = NoMode /\ tsegs = <<>> /\ tpc = "idle"
IdleTilde == hraw = <<>> /\ eo = <<>> /\ eo_expanded = <<>> /\ xpc = "idle"
IdleImport == running = FALSE /\ observed = <<>> /\ rpc = <<>>
IdleStitch == stitched = <<>> /\ visited = {} /\ sopen = FALSE /\ stpc = "idle"
IdleClass == cnode = <<>> /\ cctx = FALSE /\ cresult = <<>> /\ cpc = "idle"
IdleFinal == fbody = <<>> /\ fpc = "idle"
IdleCopy == argument = <<>> /\ returned = <<>> /\ kpc = "idle"
IdleSplit == source_text = <<>> /\ articles = <<>> /\ apc = "idle"
IdleLegacy == lsegs = <<>> /\ lpc = "idle"
IdleRest == IdleCopy /\ IdleSplit /\ IdleLegacy
IdleLate == IdleStitch /\ IdleClass /\ IdleFinal /\ IdleRest
IdleExtra == IdleTilde /\ IdleImport /\ IdleLate

----------------------------------------------------------------------------
(* Characters and strings                                                  *)

\* str.strip() / \s on the characters the model's texts contain
IsSpace(c) == c \in {" ", "\t", "\n"}
IsDigit(c) == c \in {"0", "1", "2", "3", "4", "5", "6", "7", "8", "9"}

RECURSIVE LStrip(_)
LStrip(s) ==
    IF s # <<>> /\ IsSpace(Head(s)) THEN LStrip(Tail(s)) ELSE s

RECURSIVE RStrip(_)
RStrip(s) ==
    IF s # <<>> /\ IsSpace(s[Len(s)]) THEN RStrip(SubSeq(s, 1, Len(s) - 1)) ELSE s

Strip(s) == LStrip(RStrip(s))

StartsWith(s, p) == Len(s) >= Len(p) /\ SubSeq(s, 1, Len(p)) = p
EndsWith(s, p) == Len(s) >= Len(p) /\ SubSeq(s, Len(s) - Len(p) + 1, Len(s)) = p

\* number of leading characters of s that satisfy digit-ness
RECURSIVE LeadingDigits(_)
LeadingDigits(s) ==
    IF s # <<>> /\ IsDigit(Head(s)) THEN 1 + LeadingDigits(Tail(s)) ELSE 0

\* re.match(r'^\d+\.', text)
MatchesNumberedSense(text) ==
    LET d == LeadingDigits(text)
    IN  d >= 1 /\ Len(text) > d /\ text[d + 1] = "."

\* re.match(r'^\d+\.\s+', text)
MatchesNumberedSpace(text) ==
    LET d == LeadingDigits(text)
    IN  /\ d >= 1
        /\ Len(text) > d + 1
        /\ text[d + 1] = "."
        /\ IsSpace(text[d + 2])

----------------------------------------------------------------------------
(* build_raw_tree: the indentation tree builder                            *)

MaxLines == 4

\* The lines the builder is fed: numbered senses with and without a blank
\* after the period, plain lines, tab and four-space indentation, a blank
\* line.
BodyLineSet ==
    { <<"1", ".", " ", "a">>,
      <<"\t", "2", ".", " ", "b">>,
      <<"\t", "2", ".", "b">>,
      <<"\t", "\t", "3", ".", " ", "c">>,
      <<"\t", "x">>,
      <<"\t", "\t", "y">>,
      <<" ", " ", " ", " ", "z">>,
      <<"w">>,
      <<" ", "\t">> }

\* for char in line: tabs counted, blanks skipped, stop at anything else
RECURSIVE TabCount(_)
TabCount(line) ==
    IF line = <<>> THEN 0
    ELSE IF Head(line) = "\t" THEN 1 + TabCount(Tail(line))
    ELSE IF Head(line) = " " THEN TabCount(Tail(line))
    ELSE 0

RECURSIVE SpaceCount(_)
SpaceCount(line) ==
    IF line # <<>> /\ Head(line) = " " THEN 1 + SpaceCount(Tail(line)) ELSE 0

IndentLevel(line) ==
    IF TabCount(line) # 0 THEN TabCount(line) ELSE SpaceCount(line) \div 4

\* is_numbered in build_raw_tree
IsNumberedLine(text) == MatchesNumberedSpace(text)

\* the pop loop with > for >=: an entry of the same indent stays
RECURSIVE PopIndentGreater(_, _, _)
PopIndentGreater(st, ns, indent) ==
    IF st # <<>> /\ ns[st[Len(st)]].indent > indent
    THEN PopIndentGreater(SubSeq(st, 1, Len(st) - 1), ns, indent)
    ELSE st

\* while stack and stack[-1]['indent'] >= indent_level: stack.pop()
RECURSIVE PopIndent(_, _, _)
PopIndent(st, ns, indent) ==
    IF st # <<>> /\ ns[st[Len(st)]].indent >= indent
    THEN PopIndent(SubSeq(st, 1, Len(st) - 1), ns, indent)
    ELSE st

\* index in the stack of the last numbered node, 0 when there is none
RECURSIVE LastNumbered(_, _, _)
LastNumbered(st, ns, i) ==
    IF i = 0 THEN 0
    ELSE IF IsNumberedLine(ns[st[i]].text) THEN i
    ELSE LastNumbered(st, ns, i - 1)

\* for i in range(len(stack)-1, -1, -1): ... while len(stack) > i: stack.pop()
\* (i is 0-based in the source: the numbered node itself is popped too)
PopNumbered(st, ns, numbered) ==
    IF numbered /\ st # <<>> /\ LastNumbered(st, ns, Len(st)) # 0
    THEN SubSeq(st, 1, LastNumbered(st, ns, Len(st)) - 1)
    ELSE st

\* the node with the text of the line as it stands, blanks and tabs included
NewNodeUnstripped(line, parent) ==
    [text |-> line, indent |-> IndentLevel(line), parent |-> parent]

\* node = {'text': line.strip(), 'indent': indent_level, 'children': []},
\* attached under the node at position parent (0 for root_nodes)
NewNode(line, parent) ==
    [text |-> Strip(line), indent |-> IndentLevel(line), parent |-> parent]

\* one iteration of `for line in lines`
BuildStep(line) ==
    /\ input' = Append(input, line)
    /\ IF Strip(line) = <<>>
       THEN UNCHANGED <<nodes, stack>>
       ELSE LET text == Strip(line)
                indent == IndentLevel(line)
                st1 == PopIndent(stack, nodes, indent)
                st2 == PopNumbered(st1, nodes, IsNumberedLine(text))
                parent == IF st2 # <<>> THEN st2[Len(st2)] ELSE 0
                node == NewNode(line, parent)
            IN  /\ nodes' = Append(nodes, node)
                /\ stack' = Append(st2, Len(nodes) + 1)

build_raw_tree ==
    /\ Len(input) < MaxLines
    /\ \E line \in BodyLineSet : BuildStep(line)
    /\ UNCHANGED <<pipeVars, labelVars, structVars, normVars, tokVars, extraVars>>

InitTree ==
    /\ IdleTree /\ IdlePipe /\ IdleLabel /\ IdleStruct /\ IdleNorm /\ IdleTok /\ IdleExtra

NextTree == build_raw_tree

SpecTree == InitTree /\ [][NextTree]_vars

\* n is a proper ancestor of m in the tree
RECURSIVE IsAncestor(_, _, _)
IsAncestor(ns, n, m) ==
    IF ns[m].parent = 0 THEN FALSE
    ELSE ns[m].parent = n \/ IsAncestor(ns, n, ns[m].parent)

\* C1: numbered senses are always siblings: no node whose line matches
\* ^\d+\. is a descendant of another such node.
C1_NumberedNeverNested ==
    \A n, m \in 1..Len(nodes) :
        (MatchesNumberedSense(nodes[n].text) /\ MatchesNumberedSense(nodes[m].text))
            => ~IsAncestor(nodes, n, m)

\* C20: at every step the stack is strictly increasing in indent, every
\* child has an indent strictly greater than its parent's, and a node of
\* indent 0 is a root
C20_StackIncreasesChildDeeper ==
    /\ \A i, j \in DOMAIN stack :
            i < j => nodes[stack[i]].indent < nodes[stack[j]].indent
    /\ \A n \in DOMAIN nodes :
            /\ nodes[n].parent # 0
                => nodes[nodes[n].parent].indent < nodes[n].indent
            /\ nodes[n].indent = 0 => nodes[n].parent = 0

\* a line indented by four blanks was attached under a root, a deeper line
\* under it, and a line of indent 0 then emptied the stack and became a root
C20_Witness ==
    /\ Len(nodes) = 4
    /\ nodes[2].text = <<"z">> /\ nodes[2].indent = 1 /\ nodes[2].parent = 1
    /\ nodes[3].indent = 2 /\ nodes[3].parent = 2
    /\ nodes[4].indent = 0 /\ nodes[4].parent = 0
    /\ stack = <<4>>

\* the positions of the children of node n (of the roots for n = 0), in the
\* order they were appended
ChildrenOf(ns, n) ==
    SelectSeq([k \in DOMAIN ns |-> k], LAMBDA m : ns[m].parent = n)

\* the depth-first pre-order traversal of the trees rooted at the positions
\* of a list
RECURSIVE PreOrder(_, _)
PreOrder(ns, list) ==
    IF list = <<>> THEN <<>>
    ELSE <<Head(list)>> \o PreOrder(ns, ChildrenOf(ns, Head(list)))
            \o PreOrder(ns, Tail(list))

\* the stripped texts of the non-blank lines, in input order
RECURSIVE StrippedNonBlank(_)
StrippedNonBlank(lines) ==
    IF lines = <<>> THEN <<>>
    ELSE (IF Strip(Head(lines)) = <<>> THEN <<>> ELSE <<Strip(Head(lines))>>)
            \o StrippedNonBlank(Tail(lines))

\* the texts of the tree in depth-first pre-order
PreOrderTexts ==
    [k \in DOMAIN PreOrder(nodes, ChildrenOf(nodes, 0)) |->
        nodes[PreOrder(nodes, ChildrenOf(nodes, 0))[k]].text]

\* C21: the depth-first pre-order traversal of the tree built by
\* build_raw_tree lists exactly the stripped texts of the non-blank input
\* lines, each once, in input order
C21_PreOrderIsInput == PreOrderTexts = StrippedNonBlank(input)

\* four lines with a blank one among them gave a root with a child and a
\* second root: the traversal goes down before it goes on
C21_Witness ==
    /\ Len(input) = 4
    /\ Len(nodes) = 3
    /\ nodes[2].parent = 1
    /\ nodes[3].parent = 0
    /\ \E k \in DOMAIN input : Strip(input[k]) = <<>>
    /\ PreOrder(nodes, ChildrenOf(nodes, 0)) = <<1, 2, 3>>

----------------------------------------------------------------------------
(* parse_headword (parser_v2.0_clean.py)                                   *)

None == <<"None">>

\* index of the first c in s at or after position i (1-based), 0 when absent
RECURSIVE Find(_, _, _)
Find(s, c, i) ==
    IF i > Len(s) THEN 0
    ELSE IF s[i] = c THEN i
    ELSE Find(s, c, i + 1)

Contains(s, c) == Find(s, c, 1) # 0

\* s.split(c)
RECURSIVE Split(_, _)
Split(s, c) ==
    LET k == Find(s, c, 1)
    IN  IF k = 0 THEN <<s>>
        ELSE <<SubSeq(s, 1, k - 1)>> \o Split(SubSeq(s, k + 1, Len(s)), c)

\* s.replace(c, '')
RECURSIVE Remove(_, _)
Remove(s, c) ==
    IF s = <<>> THEN <<>>
    ELSE IF Head(s) = c THEN Remove(Tail(s), c)
    ELSE <<Head(s)>> \o Remove(Tail(s), c)

\* re.sub(r'\([^)]+\)', '', s)
RECURSIVE RemoveParenGroups(_)
RemoveParenGroups(s) ==
    IF s = <<>> THEN <<>>
    ELSE LET k == Find(s, ")", 2)
         IN  IF Head(s) = "(" /\ k > 2
             THEN RemoveParenGroups(SubSeq(s, k + 1, Len(s)))
             ELSE <<Head(s)>> \o RemoveParenGroups(Tail(s))

\* re.sub(r'\|.*', '', s)
CutAtBar(s) ==
    IF Contains(s, "|") THEN SubSeq(s, 1, Find(s, "|", 1) - 1) ELSE s

\* parse_wordform: the lemma entry of one word form, as a sequence of one
\* entry; the empty sequence stands for None (nothing is left)
parse_wordform(wordform) ==
    LET base_form == Remove(Remove(CutAtBar(RemoveParenGroups(wordform)), "~"), "/")
    IN  IF base_form = <<>> THEN <<>>
        ELSE <<[raw |-> wordform, lemma |-> base_form]>>

IsRoman(c) == c \in {"I", "V", "X", "L", "C", "D", "M"}
IsLetter(c) ==
    c \in {"a", "b", "c", "d", "e", "f", "g", "h", "i", "j", "k", "l", "m",
           "n", "o", "p", "q", "r", "s", "t", "u", "v", "w", "x", "y", "z",
           "A", "B", "I", "V", "X", "L", "C", "D", "M"}
\* \w
IsWordChar(c) == IsLetter(c) \/ IsDigit(c) \/ c = "_"

\* length of the run of roman-numeral letters that ends s
RECURSIVE TrailingRoman(_)
TrailingRoman(s) ==
    IF s # <<>> /\ IsRoman(s[Len(s)])
    THEN 1 + TrailingRoman(SubSeq(s, 1, Len(s) - 1))
    ELSE 0

\* re.search(r'\b([IVXLCDM]+)$', content): the homonym index, <<>> when absent
HomonymSuffix(content) ==
    LET r == TrailingRoman(content)
        k == Len(content) - r
    IN  IF r > 0 /\ (k = 0 \/ ~IsWordChar(content[k]))
        THEN SubSeq(content, k + 1, Len(content))
        ELSE <<>>

\* re.sub(rf"\s*\b{suffix}\b$", "", s).rstrip(), applied when the suffix ends s
\* at a word boundary
StripHomonym(s, suffix) ==
    IF suffix # <<>> /\ EndsWith(s, suffix)
       /\ (Len(s) = Len(suffix) \/ ~IsWordChar(s[Len(s) - Len(suffix)]))
    THEN RStrip(SubSeq(s, 1, Len(s) - Len(suffix)))
    ELSE s

\* the lemma entries of the comma-separated parts, empty lemmas dropped
RECURSIVE LemmasOf(_, _)
LemmasOf(parts, suffix) ==
    IF parts = <<>> THEN <<>>
    ELSE parse_wordform(StripHomonym(Strip(Head(parts)), suffix))
            \o LemmasOf(Tail(parts), suffix)

\* re.match(r'\s*\*(\d*)', remaining): number of characters matched, 0 = no match
OfficialMatchLen(remaining) ==
    LET sp == Len(remaining) - Len(LStrip(remaining))
        rest == LStrip(remaining)
    IN  IF rest # <<>> /\ Head(rest) = "*"
        THEN sp + 1 + LeadingDigits(Tail(rest))
        ELSE 0

\* parse_headword: [raw_form, lemmas, official_mark, homonym, remaining]
parse_headword(text) ==
    LET t == LStrip(text)
        close == Find(t, "]", 1)
    IN  IF ~(t # <<>> /\ Head(t) = "[" /\ close > 2)
        THEN [raw_form |-> <<>>, lemmas |-> <<>>, official_mark |-> None,
              homonym |-> None, remaining |-> text]
        ELSE LET content0 == SubSeq(t, 2, close - 1)
                 raw_form == SubSeq(text, 1, Len(text) - Len(t) + close)
                 rem0 == SubSeq(t, close + 1, Len(t))
                 om == OfficialMatchLen(rem0)
                 digits == IF om = 0 THEN <<>>
                           ELSE SubSeq(rem0, om - LeadingDigits(Tail(LStrip(rem0))) + 1, om)
                 official == IF om = 0 THEN None
                             ELSE IF digits # <<>> THEN <<"O", "A">> \o digits
                             ELSE <<"U", "V">>
                 remaining == SubSeq(rem0, om + 1, Len(rem0))
                 suffix == HomonymSuffix(content0)
                 content == StripHomonym(content0, suffix)
             IN  [raw_form |-> raw_form,
                  lemmas |-> LemmasOf(Split(content, ","), suffix),
                  official_mark |-> official,
                  homonym |-> IF suffix = <<>> THEN None ELSE suffix,
                  remaining |-> Strip(remaining)]

\* any(lemma startswith '-' or endswith '-')
IsMorphemeHeadword(lemmas) ==
    \E i \in 1..Len(lemmas) :
        StartsWith(lemmas[i].lemma, <<"-">>) \/ EndsWith(lemmas[i].lemma, <<"-">>)

----------------------------------------------------------------------------
(* Template registry (parser_v3/templates.py) and the article context      *)
(* (parser_v3/pipeline.py)                                                 *)

\* str.lower() on the letters of the model
LowerChar(c) ==
    CASE c = "A" -> "a" [] c = "B" -> "b" [] c = "I" -> "i" [] c = "V" -> "v"
      [] c = "X" -> "x" [] c = "L" -> "l" [] c = "C" -> "c" [] c = "D" -> "d"
      [] c = "M" -> "m" [] OTHER -> c

Lower(s) == [i \in 1..Len(s) |-> LowerChar(s[i])]

\* re.match(r'^\d{4}-\d{2}-\d{2}', stripped)
MatchesDate(t) ==
    /\ Len(t) >= 10
    /\ \A i \in {1, 2, 3, 4, 6, 7, 9, 10} : IsDigit(t[i])
    /\ t[5] = "-" /\ t[8] = "-"

\* re.match(r'^\w+ \w+$', stripped)
MatchesTwoWords(t) ==
    \E k \in 2..(Len(t) - 1) :
        /\ t[k] = " "
        /\ \A i \in 1..Len(t) : i # k => IsWordChar(t[i])

\* _filter_relevant_lines: the stripped lines that are not blank, not dated
\* and not a two-word line
RECURSIVE filter_relevant_lines(_)
filter_relevant_lines(lines) ==
    IF lines = <<>> THEN <<>>
    ELSE LET stripped == Strip(Head(lines))
         IN  (IF stripped = <<>> \/ MatchesDate(stripped) \/ MatchesTwoWords(stripped)
              THEN <<>> ELSE <<stripped>>)
                \o filter_relevant_lines(Tail(lines))

\* ArticleContext built by ParsingPipeline.parse_article
ArticleContext(lines) ==
    LET filtered == filter_relevant_lines(lines)
    IN  [head_line |-> Head(filtered), body_lines |-> Tail(filtered)]

NoMatch == [matched |-> FALSE, confidence |-> 0]

\* any(NUMBERED_PATTERN.match(line) for line in context.body_lines)
HasNumbered(body_lines) ==
    \E i \in 1..Len(body_lines) : MatchesNumberedSense(body_lines[i])

StripAll(parts) == [i \in 1..Len(parts) |-> Strip(parts[i])]

\* LetterEntryTemplate.matches
LetterEntryMatches(ctx) ==
    LET head_line == Strip(ctx.head_line)
        close == Find(head_line, "]", 1)
        inside == StripAll(Split(SubSeq(head_line, 2, close - 1), ","))
    IN  IF ~(head_line # <<>> /\ Head(head_line) = "[" /\ close > 2) THEN NoMatch
        ELSE IF Len(inside) # 2 THEN NoMatch
        ELSE IF inside[1] = <<>> \/ inside[2] = <<>> THEN NoMatch
        ELSE IF Lower(inside[1]) # Lower(inside[2]) THEN NoMatch
        ELSE IF ctx.body_lines # <<>> THEN NoMatch
        ELSE [matched |-> TRUE, confidence |-> 85]

\* MorphemeNumberedTemplate.matches
MorphemeNumberedMatches(ctx) ==
    LET lemmas == parse_headword(Strip(ctx.head_line)).lemmas
    IN  IF lemmas = <<>> THEN NoMatch
        ELSE IF ~IsMorphemeHeadword(lemmas) THEN NoMatch
        ELSE IF ctx.body_lines = <<>> THEN NoMatch
        ELSE IF ~HasNumbered(ctx.body_lines) THEN NoMatch
        ELSE [matched |-> TRUE, confidence |-> 80]

\* MorphemeArticleTemplate.matches
MorphemeMatches(ctx) ==
    LET head_raw == Strip(ctx.head_line)
    IN  IF ~StartsWith(head_raw, <<"[">>) \/ ~Contains(head_raw, "]") THEN NoMatch
        ELSE IF IsMorphemeHeadword(parse_headword(head_raw).lemmas)
             THEN [matched |-> TRUE, confidence |-> 55]
        ELSE NoMatch

\* LexemeNumberedTemplate.matches
LexemeNumberedMatches(ctx) ==
    LET lemmas == parse_headword(Strip(ctx.head_line)).lemmas
    IN  IF lemmas = <<>> THEN NoMatch
        ELSE IF IsMorphemeHeadword(lemmas) THEN NoMatch
        ELSE IF ctx.body_lines = <<>> THEN NoMatch
        ELSE IF ~HasNumbered(ctx.body_lines) THEN NoMatch
        ELSE [matched |-> TRUE, confidence |-> 70]

\* a fallback that outbids the numbered-lexeme template
DefaultMatchesHigh(ctx) == [matched |-> TRUE, confidence |-> 75]

\* DefaultArticleTemplate.matches
DefaultMatches(ctx) == [matched |-> TRUE, confidence |-> 10]

\* the templates in registration order: name and priority
DEFAULT_TEMPLATES ==
    << [name |-> "letter_entry", priority |-> 5],
       [name |-> "morpheme_numbered", priority |-> 8],
       [name |-> "morpheme", priority |-> 10],
       [name |-> "lexeme_numbered", priority |-> 12],
       [name |-> "default", priority |-> 100] >>

TemplateNames == {DEFAULT_TEMPLATES[i].name : i \in 1..Len(DEFAULT_TEMPLATES)}

\* template.matches(context), dispatched on the template
Matches(name, ctx) ==
    CASE name = "letter_entry" -> LetterEntryMatches(ctx)
      [] name = "morpheme_numbered" -> MorphemeNumberedMatches(ctx)
      [] name = "morpheme" -> MorphemeMatches(ctx)
      [] name = "lexeme_numbered" -> LexemeNumberedMatches(ctx)
      [] name = "default" -> DefaultMatches(ctx)

\* sorted(templates, key=lambda tpl: (tpl.priority, tpl.name)); the default
\* templates have distinct priorities, so the name never decides
RECURSIVE SortByPriority(_)
SortByPriority(tpls) ==
    IF tpls = <<>> THEN <<>>
    ELSE LET m == CHOOSE i \in 1..Len(tpls) :
                    \A j \in 1..Len(tpls) : tpls[i].priority <= tpls[j].priority
         IN  <<tpls[m]>> \o
             SortByPriority([k \in 1..(Len(tpls) - 1) |->
                                IF k < m THEN tpls[k] ELSE tpls[k + 1]])

\* TemplateRegistry.__init__
Registry == SortByPriority(DEFAULT_TEMPLATES)

\* the loop body without the comparison: the last match wins
SelectStepLastWins(best, name, ctx) ==
    LET result == Matches(name, ctx)
    IN  IF ~result.matched THEN best
        ELSE [template |-> name, score |-> result.confidence]

\* one iteration of the loop of select: best is [template, score]
SelectStep(best, name, ctx) ==
    LET result == Matches(name, ctx)
    IN  IF ~result.matched THEN best
        ELSE IF result.confidence > best.score
             THEN [template |-> name, score |-> result.confidence]
        ELSE best

RECURSIVE SelectLoop(_, _, _)
SelectLoop(best, tpls, ctx) ==
    IF tpls = <<>> THEN best
    ELSE SelectLoop(SelectStep(best, Head(tpls).name, ctx), Tail(tpls), ctx)

\* TemplateRegistry.select: the name of the template returned
select(ctx) ==
    LET best == SelectLoop([template |-> "", score |-> -100], Registry, ctx)
    IN  IF best.template # "" THEN best.template
        ELSE Registry[Len(Registry)].name

MaxChunk == 3

\* Lines of the chunks offered to the registry: lexeme, morpheme and letter
\* heads, numbered and plain body lines, a blank and a two-word line.
SelectLineSet ==
    { <<"[", "a", "]">>,
      <<"[", "-", "a", "]">>,
      <<"[", "A", ",", " ", "a", "]">>,
      <<"[", "-", "a", ",", "-", "A", "]">>,
      <<"1", ".", " ", "b">>,
      <<"b">>,
      <<>>,
      <<"a", " ", "b">> }

SelectChunks ==
    UNION {[1..n -> SelectLineSet] : n \in 1..MaxChunk}

InitSelect ==
    /\ chunk \in SelectChunks
    /\ pc = "start"
    /\ selected = ""
    /\ article = NoArticle
    /\ IdleTree /\ IdleLabel /\ IdleStruct /\ IdleNorm /\ IdleTok /\ IdleExtra

\* parse_article up to the choice of the template; with no relevant line it
\* returns before the registry is asked
SelectTemplate ==
    /\ pc = "start"
    /\ filter_relevant_lines(chunk) # <<>>
    /\ selected' = select(ArticleContext(chunk))
    /\ pc' = "selected"
    /\ UNCHANGED <<chunk, article>>
    /\ UNCHANGED <<treeVars, labelVars, structVars, normVars, tokVars, extraVars>>

NextSelect == SelectTemplate

SpecSelect == InitSelect /\ [][NextSelect]_vars

\* the templates that match the context
Matching(ctx) == {n \in TemplateNames : Matches(n, ctx).matched}

\* C2: select returns a template that matches the context and whose match
\* confidence is the highest among all templates that match it.
C2_SelectHighestConfidence ==
    pc = "selected" =>
        LET ctx == ArticleContext(chunk)
        IN  /\ selected \in Matching(ctx)
            /\ \A n \in Matching(ctx) :
                   Matches(n, ctx).confidence <= Matches(selected, ctx).confidence

\* C2 witness: two templates with different confidences match and select has
\* returned the one that is not first in registration order of the two.
C2_Witness ==
    /\ pc = "selected"
    /\ selected = "morpheme_numbered"
    /\ "morpheme" \in Matching(ArticleContext(chunk))

\* C3: Default matches every context below every other template's match, so
\* select always returns a template, and Default exactly when no other matches.
C3_DefaultIsFloor ==
    pc = "selected" =>
        LET ctx == ArticleContext(chunk)
        IN  /\ "default" \in Matching(ctx)
            /\ \A n \in Matching(ctx) \ {"default"} :
                   Matches("default", ctx).confidence < Matches(n, ctx).confidence
            /\ selected \in TemplateNames
            /\ (selected = "default") <=> (Matching(ctx) = {"default"})

\* C3 witness: a context only Default matches, and Default was returned.
C3_Witness ==
    /\ pc = "selected"
    /\ selected = "default"
    /\ Matching(ArticleContext(chunk)) = {"default"}

----------------------------------------------------------------------------
(* _detect_structure_issues (importer.py, scripts/check_structure_issues.py) *)

\* [A-Za-z0-9_]
IsUserChar(c) == IsWordChar(c)

\* STRUCTURE_HEADER_PATTERN:
\* ^\d{4}-\d{2}-\d{2} \d{1,2}:\d{2} [A-Za-z0-9_]+#?$
MatchesStructureHeader(t) ==
    /\ MatchesDate(t)
    /\ \E h \in {1, 2} :
        /\ Len(t) >= 10 + 1 + h + 1 + 2 + 1 + 1
        /\ t[11] = " "
        /\ \A i \in 12..(11 + h) : IsDigit(t[i])
        /\ t[12 + h] = ":"
        /\ IsDigit(t[13 + h]) /\ IsDigit(t[14 + h])
        /\ t[15 + h] = " "
        /\ LET rest == SubSeq(t, 16 + h, Len(t))
               name == IF rest[Len(rest)] = "#"
                       THEN SubSeq(rest, 1, Len(rest) - 1) ELSE rest
           IN  \/ rest # <<>> /\ \A i \in 1..Len(rest) : IsUserChar(rest[i])
               \/ name # <<>> /\ \A i \in 1..Len(name) : IsUserChar(name[i])

\* STRUCTURE_WORD_PATTERN: ^\[[^\]]+\]
MatchesStructureWord(t) ==
    t # <<>> /\ Head(t) = "[" /\ Find(t, "]", 1) > 2

HeaderLine == <<"2", "0", "2", "0", "-", "0", "1", "-", "0", "2", " ",
                "1", ":", "0", "0", " ", "a">>
HeaderLineHash == <<" ", "2", "0", "2", "0", "-", "0", "1", "-", "0", "2", " ",
                    "1", "2", ":", "0", "0", " ", "a", "_", "b", "#">>

MaxFile == 4

\* Lines of the scanned file: two header lines, a headword line, a headword
\* line with its article, a plain line, a date line with no editor (no
\* header), an empty and a blank line.
StructLineSet ==
    { HeaderLine,
      HeaderLineHash,
      <<"[", "a", "]">>,
      <<"[", "a", "]", " ", "b">>,
      <<"b">>,
      SubSeq(HeaderLine, 1, 15),
      <<>>,
      <<" ">> }

StructFiles == UNION {[1..n -> StructLineSet] : n \in 0..MaxFile}

\* lines[i].strip() of the 0-based index i
StrippedAt(lines, i) == Strip(lines[i + 1])

\* the header lines from 0-based index i on: the inner while loop
RECURSIVE HeaderBlockEnd(_, _)
HeaderBlockEnd(lines, i) ==
    IF i < Len(lines) /\ MatchesStructureHeader(StrippedAt(lines, i))
    THEN HeaderBlockEnd(lines, i + 1)
    ELSE i

\* 1-based line numbers of the block [i, j)
BlockLines(i, j) == [k \in 1..(j - i) |-> i + k]

\* a blank line that leaves the header block in force
AfterBlankKeep(headers) == headers

\* current_headers = [] on a blank line
AfterBlank(headers) == <<>>

InitStruct ==
    /\ slines \in StructFiles
    /\ idx = 0
    /\ current_headers = <<>>
    /\ issues = <<>>
    /\ spc = "scan"
    /\ IdleTree /\ IdlePipe /\ IdleLabel /\ IdleNorm /\ IdleTok /\ IdleExtra

\* if not stripped: current_headers = []; idx += 1; continue
ScanBlank ==
    /\ spc = "scan" /\ idx < Len(slines)
    /\ StrippedAt(slines, idx) = <<>>
    /\ current_headers' = AfterBlank(current_headers)
    /\ idx' = idx + 1
    /\ UNCHANGED <<slines, issues, spc>>
    /\ UNCHANGED <<treeVars, pipeVars, labelVars, normVars, tokVars, extraVars>>

\* if STRUCTURE_HEADER_PATTERN.match(stripped): ... continue / break
ScanHeaderBlock ==
    /\ spc = "scan" /\ idx < Len(slines)
    /\ StrippedAt(slines, idx) # <<>>
    /\ MatchesStructureHeader(StrippedAt(slines, idx))
    /\ LET end == HeaderBlockEnd(slines, idx)
           header_block == BlockLines(idx, end)
           issue == [type |-> "header_without_word", lines |-> header_block]
       IN  /\ idx' = end
           /\ current_headers' = header_block
           /\ IF end >= Len(slines)
              THEN issues' = Append(issues, issue) /\ spc' = "done"
              ELSE /\ spc' = spc
                   /\ IF StrippedAt(slines, end) = <<>>
                         \/ ~MatchesStructureWord(StrippedAt(slines, end))
                      THEN issues' = Append(issues, issue)
                      ELSE issues' = issues
    /\ UNCHANGED slines
    /\ UNCHANGED <<treeVars, pipeVars, labelVars, normVars, tokVars, extraVars>>

\* if STRUCTURE_WORD_PATTERN.match(stripped) and not current_headers: ...; idx += 1
ScanLine ==
    /\ spc = "scan" /\ idx < Len(slines)
    /\ StrippedAt(slines, idx) # <<>>
    /\ ~MatchesStructureHeader(StrippedAt(slines, idx))
    /\ IF MatchesStructureWord(StrippedAt(slines, idx)) /\ current_headers = <<>>
       THEN issues' = Append(issues,
                [type |-> "word_without_header", lines |-> <<idx + 1>>])
       ELSE issues' = issues
    /\ idx' = idx + 1
    /\ UNCHANGED <<slines, current_headers, spc>>
    /\ UNCHANGED <<treeVars, pipeVars, labelVars, normVars, tokVars, extraVars>>

\* while idx < len(lines) fails: return issues
ScanReturn ==
    /\ spc = "scan" /\ idx >= Len(slines)
    /\ spc' = "done"
    /\ UNCHANGED <<slines, idx, current_headers, issues>>
    /\ UNCHANGED <<treeVars, pipeVars, labelVars, normVars, tokVars, extraVars>>

NextStruct == ScanBlank \/ ScanHeaderBlock \/ ScanLine \/ ScanReturn

SpecStruct == InitStruct /\ [][NextStruct]_vars

\* What the scan is to report, stated on the file as a whole (1-based k).
IsHeaderAt(lines, k) == MatchesStructureHeader(Strip(lines[k]))
IsWordAt(lines, k) == MatchesStructureWord(Strip(lines[k]))
IsBlankAt(lines, k) == Strip(lines[k]) = <<>>

\* k starts a maximal block of consecutive header lines
StartsBlock(lines, k) ==
    IsHeaderAt(lines, k) /\ (k = 1 \/ ~IsHeaderAt(lines, k - 1))

\* the last line of the maximal block that starts at k
BlockLast(lines, k) ==
    CHOOSE j \in k..Len(lines) :
        /\ \A i \in k..j : IsHeaderAt(lines, i)
        /\ (j = Len(lines) \/ ~IsHeaderAt(lines, j + 1))

\* the block that starts at k is not immediately followed by a headword line
BlockWithoutWord(lines, k) ==
    LET j == BlockLast(lines, k)
    IN  j = Len(lines) \/ ~IsWordAt(lines, j + 1)

\* a header line lies between the last blank line before k and k
HeaderSinceBlank(lines, k) ==
    \E h \in 1..(k - 1) :
        IsHeaderAt(lines, h) /\ \A b \in h..(k - 1) : ~IsBlankAt(lines, b)

RECURSIVE ExpectedIssues(_, _)
ExpectedIssues(lines, k) ==
    IF k > Len(lines) THEN <<>>
    ELSE (IF StartsBlock(lines, k) /\ BlockWithoutWord(lines, k)
          THEN <<[type |-> "header_without_word",
                  lines |-> [i \in 1..(BlockLast(lines, k) - k + 1) |-> k + i - 1]]>>
          ELSE IF IsWordAt(lines, k) /\ ~HeaderSinceBlank(lines, k)
          THEN <<[type |-> "word_without_header", lines |-> <<k>>]>>
          ELSE <<>>)
         \o ExpectedIssues(lines, k + 1)

\* C9: scanning a file to its end records exactly one header_without_word
\* issue per maximal header block not immediately followed by a headword
\* line, exactly one word_without_header issue per headword line with no
\* header block since the last blank line, each with its 1-based line
\* numbers, and every line is scanned whatever issues were recorded.
C9_StructureIssues ==
    spc = "done" =>
        /\ issues = ExpectedIssues(slines, 1)
        /\ idx = Len(slines)

\* C9 witness: a finished scan that recorded an issue of each kind and went
\* on to scan lines after the first issue.
C9_Witness ==
    /\ spc = "done"
    /\ \E i, j \in 1..Len(issues) :
        /\ i < j
        /\ issues[i].type # issues[j].type

----------------------------------------------------------------------------
(* register_label and _post_process_ru_segments (parser_v2.0_clean.py)     *)
(* Stand-ins: "med", "mat" for the built-in labels, "bot" for a key of the *)
(* abbreviation file; "^" stands for the stress mark (grave accent).       *)

BUILTIN_LABELS == {<<"m", "e", "d">>, <<"m", "a", "t">>}

\* the tables load_shortenings() may have produced
ShorteningTables == {{}, {<<"b", "o", "t">>}}

\* s.strip('.')
RECURSIVE LStripDots(_)
LStripDots(s) ==
    IF s # <<>> /\ Head(s) = "." THEN LStripDots(Tail(s)) ELSE s

RECURSIVE RStripDots(_)
RStripDots(s) ==
    IF s # <<>> /\ s[Len(s)] = "."
    THEN RStripDots(SubSeq(s, 1, Len(s) - 1))
    ELSE s

StripDots(s) == LStripDots(RStripDots(s))

\* re.sub(r"[`'\s]", "", s)
RECURSIVE RemoveLabelNoise(_)
RemoveLabelNoise(s) ==
    IF s = <<>> THEN <<>>
    ELSE IF Head(s) \in {"^", "'"} \/ IsSpace(Head(s))
         THEN RemoveLabelNoise(Tail(s))
         ELSE <<Head(s)>> \o RemoveLabelNoise(Tail(s))

\* register_label: normalized
NormalizeLabel(label_text) ==
    RemoveLabelNoise(Lower(StripDots(Strip(label_text))))

\* register_label: the early returns before the look-ups
LabelIgnored(label_text) ==
    \/ StartsWith(Strip(label_text), <<"(">>)
    \/ NormalizeLabel(label_text) = <<>>
    \/ Contains(NormalizeLabel(label_text), " ")
    \/ Len(NormalizeLabel(label_text)) > 7

LabelKnown(normalized, known) ==
    normalized \in known \/ normalized \in BUILTIN_LABELS

AlreadyLoggedNever(normalized, logged) == FALSE

\* register_label: if normalized in LOGGED_UNKNOWN_LABELS: return
AlreadyLogged(normalized, logged) == normalized \in logged

\* register_label on the diagnostics state g = [logged, issues, calls];
\* an issue's "at" stands for its timestamp: the position of the call
register_label(label_text, known, g) ==
    LET normalized == NormalizeLabel(label_text)
        seen == [g EXCEPT !.calls = Append(g.calls, label_text)]
    IN  IF LabelIgnored(label_text) THEN seen
        ELSE IF LabelKnown(normalized, known) THEN seen
        ELSE IF AlreadyLogged(normalized, g.logged) THEN seen
        ELSE [seen EXCEPT
                !.logged = g.logged \cup {normalized},
                !.issues = Append(g.issues,
                                  [type |-> "unknown_label",
                                   label |-> label_text,
                                   at |-> Len(seen.calls)])]

IsUpper(c) == c \in {"A", "B", "I", "V", "X", "L", "C", "D", "M"}
\* s.isalpha()
IsAlpha(s) == s # <<>> /\ \A i \in 1..Len(s) : IsLetter(s[i])
\* '`' in text or any(ch.isupper() for ch in text)
StressedOrUpper(text) ==
    Contains(text, "^") \/ \E i \in 1..Len(text) : IsUpper(text[i])

Seg(kind, text) == [kind |-> kind, text |-> text, style |-> "", target |-> <<>>]

LabelStepOnce(st, label_text, known, skip) ==
    LET fresh == NormalizeLabel(label_text) \notin st.g.logged
    IN  [result |-> IF fresh THEN Append(st.result, Seg("label", label_text))
                    ELSE st.result,
         g |-> register_label(label_text, known, st.g),
         i |-> st.i + skip]

\* result.append({'text': label_text, 'kind': 'label'}); register_label(...)
LabelStep(st, label_text, known, skip) ==
    [result |-> Append(st.result, Seg("label", label_text)),
     g |-> register_label(label_text, known, st.g),
     i |-> st.i + skip]

KeepStep(st, kept) ==
    [st EXCEPT !.result = st.result \o kept, !.i = st.i + Len(kept)]

\* s.strip('_')
RECURSIVE StripUnderscores(_)
StripUnderscores(s) ==
    IF s # <<>> /\ Head(s) = "_" THEN StripUnderscores(Tail(s))
    ELSE IF s # <<>> /\ s[Len(s)] = "_"
         THEN StripUnderscores(SubSeq(s, 1, Len(s) - 1))
         ELSE s

\* the note branch: wrap in parentheses, mark italic
NoteSegment(segment) ==
    LET clean == StripUnderscores(Strip(segment.text))
    IN  IF clean = <<>> THEN segment
        ELSE [segment EXCEPT
                !.text = IF StartsWith(clean, <<"(">>) THEN clean
                         ELSE <<"(">> \o clean \o <<")">>,
                !.style = "italic"]

\* the link branch, for targets without '@' (_split_link_notation: strip)
LinkSegment(segment) ==
    LET target_raw == IF segment.target # <<>> THEN segment.target
                      ELSE segment.text
        target == Strip(target_raw)
    IN  [segment EXCEPT
            !.target = target,
            !.text = IF segment.text # <<>> THEN segment.text ELSE target]

\* one iteration of the while loop of _post_process_ru_segments
PostProcessStep(st, segments, known) ==
    LET segment == segments[st.i]
        kind == segment.kind
        text == segment.text
        has_next == st.i + 1 <= Len(segments)
        next_seg == segments[st.i + 1]
    IN  IF kind = "term" /\ has_next /\ next_seg.kind = "sentence_divider"
           /\ next_seg.text = <<".">>
        THEN IF StressedOrUpper(text)
             THEN KeepStep(st, <<segment, next_seg>>)
             ELSE LabelStep(st, text \o <<".">>, known, 2)
        ELSE IF kind = "term" /\ EndsWith(text, <<".">>)
                /\ IsAlpha(StripDots(text))
        THEN IF StressedOrUpper(text)
             THEN KeepStep(st, <<segment>>)
             ELSE LabelStep(st, text, known, 1)
        ELSE IF kind = "note" THEN KeepStep(st, <<NoteSegment(segment)>>)
        ELSE IF kind = "link" THEN KeepStep(st, <<LinkSegment(segment)>>)
        ELSE KeepStep(st, <<segment>>)

RECURSIVE PostProcessLoop(_, _, _)
PostProcessLoop(st, segments, known) ==
    IF st.i > Len(segments) THEN st
    ELSE PostProcessLoop(PostProcessStep(st, segments, known), segments, known)

\* _post_process_ru_segments(segments) run on the diagnostics state g
post_process_ru_segments(segments, known, g) ==
    PostProcessLoop([result |-> <<>>, g |-> g, i |-> 1], segments, known)

\* bound on the number of operations of one run
MaxOps == 3
\* bound on the number of segments of one post-processed line
MaxSegs == 2

\* label texts handed to register_label directly
LabelSet ==
    {<<"a", "b", "c">>, <<"a", "b", "c", ".">>, <<" ", "A", "b", "c">>,
     <<"m", "e", "d", ".">>, <<"b", "o", "t">>,
     <<"a", "b", "c", "d", "e", "a", "b", "c">>,
     <<"(", "a", "b", ")">>, <<".">>}

\* segments split_ru_segments produces: stripped non-empty texts
SegSet ==
    {Seg("term", <<"a", "b", "c">>), Seg("term", <<"a", "b", ".">>),
     Seg("term", <<"m", "e", "d">>), Seg("term", <<"A", "b">>),
     Seg("sentence_divider", <<".">>), Seg("near_divider", <<",">>),
     Seg("note", <<"x", "y">>),
     [kind |-> "link", text |-> <<"x">>, style |-> "", target |-> <<"x">>]}

SegLists ==
    UNION {[1..n -> SegSet] : n \in 1..MaxSegs}

Diagnostics ==
    [logged |-> LOGGED_UNKNOWN_LABELS, issues |-> parsing_issues, calls |-> calls]

InitLabel ==
    /\ KNOWN_SHORTENINGS \in ShorteningTables
    /\ LOGGED_UNKNOWN_LABELS = {}
    /\ parsing_issues = <<>>
    /\ calls = <<>>
    /\ parsed = <<>>
    /\ IdleTree /\ IdlePipe /\ IdleStruct /\ IdleNorm /\ IdleTok /\ IdleExtra

\* a caller registers one label
RegisterLabel ==
    /\ Len(calls) + Len(parsed) < MaxOps
    /\ \E label_text \in LabelSet :
        LET g == register_label(label_text, KNOWN_SHORTENINGS, Diagnostics)
        IN  /\ LOGGED_UNKNOWN_LABELS' = g.logged
            /\ parsing_issues' = g.issues
            /\ calls' = g.calls
    /\ UNCHANGED <<KNOWN_SHORTENINGS, parsed>>
    /\ UNCHANGED <<treeVars, pipeVars, structVars, normVars, tokVars, extraVars>>

\* one line's segments are post-processed while an article is parsed
PostProcessSegments ==
    /\ Len(calls) + Len(parsed) < MaxOps
    /\ \E segments \in SegLists :
        LET st == post_process_ru_segments(segments, KNOWN_SHORTENINGS, Diagnostics)
        IN  /\ LOGGED_UNKNOWN_LABELS' = st.g.logged
            /\ parsing_issues' = st.g.issues
            /\ calls' = st.g.calls
            /\ parsed' = Append(parsed, [segs |-> segments,
                                         result |-> st.result,
                                         logged |-> LOGGED_UNKNOWN_LABELS])
    /\ UNCHANGED KNOWN_SHORTENINGS
    /\ UNCHANGED <<treeVars, pipeVars, structVars, normVars, tokVars, extraVars>>

NextLabel == RegisterLabel \/ PostProcessSegments

SpecLabel == InitLabel /\ [][NextLabel]_vars

CallsOf(n) == {i \in DOMAIN calls : NormalizeLabel(calls[i]) = n}
\* ... among them, those register_label does not ignore
ConsideredCallsOf(n) == {i \in CallsOf(n) : ~LabelIgnored(calls[i])}
\* the unknown_label diagnostics about n
DiagnosticsOf(n) ==
    {j \in DOMAIN parsing_issues :
        /\ parsing_issues[j].type = "unknown_label"
        /\ NormalizeLabel(parsing_issues[j].label) = n}
SetMin(S) == CHOOSE m \in S : \A k \in S : m <= k
NormalizedCalls == {NormalizeLabel(calls[i]) : i \in DOMAIN calls}
ExactlyOnceAtFirst(n, occurrences) ==
    /\ Cardinality(DiagnosticsOf(n)) = 1
    /\ \A j \in DiagnosticsOf(n) : parsing_issues[j].at = SetMin(occurrences)

----------------------------------------------------------------------------
(* The rich-text tokenizer (parser_v3/text_parser.py)                      *)
(* Stand-ins for the Cyrillic letters of the abbreviation patterns:        *)
(* t, p, d, s, r, l, o, e, i, m.  A segment carries, besides the fields of *)
(* the source, `start': the position in the text of its first character.   *)

\* count_unescaped_underscores, with its escape flag
RECURSIVE CountUnderscores(_, _)
CountUnderscores(text, escaped) ==
    IF text = <<>> THEN 0
    ELSE IF escaped THEN CountUnderscores(Tail(text), FALSE)
    ELSE IF Head(text) = "\\" THEN CountUnderscores(Tail(text), TRUE)
    ELSE IF Head(text) = "_" THEN 1 + CountUnderscores(Tail(text), FALSE)
    ELSE CountUnderscores(Tail(text), FALSE)

count_unescaped_underscores(text) == CountUnderscores(text, FALSE)

\* ABBREVIATION_PATTERNS: [b, lit] is lit, preceded by \b when b is TRUE
ABBREVIATION_PATTERNS ==
    <<[b |-> FALSE, lit |-> <<"-", "l", ".">>],
      [b |-> FALSE, lit |-> <<"-", "t", "o", ".">>],
      [b |-> TRUE, lit |-> <<"t", ".", "e", ".">>],
      [b |-> TRUE, lit |-> <<"t", ".", "p", ".">>],
      [b |-> TRUE, lit |-> <<"i", " ", "t", ".", "d", ".">>],
      [b |-> TRUE, lit |-> <<"i", " ", "t", ".", "p", ".">>],
      [b |-> TRUE, lit |-> <<"i", " ", "d", "r", ".">>],
      [b |-> TRUE, lit |-> <<"s", "r", ".">>],
      [b |-> TRUE, lit |-> <<"s", "m", ".">>]>>

\* ABBREVIATION_REGEX.search(context), case-insensitive
AbbreviationRegexSearch(context) ==
    LET low == Lower(context)
    IN  \E n \in DOMAIN ABBREVIATION_PATTERNS :
            LET pat == ABBREVIATION_PATTERNS[n]
            IN  \E k \in 1..Len(low) :
                    /\ k + Len(pat.lit) - 1 <= Len(low)
                    /\ SubSeq(low, k, k + Len(pat.lit) - 1) = pat.lit
                    /\ pat.b => (k = 1 \/ ~IsWordChar(low[k - 1]))

Max2(a, b) == IF a >= b THEN a ELSE b
Min2(a, b) == IF a <= b THEN a ELSE b

\* is_abbreviation_context(text, position), position 1-based here
is_abbreviation_context(text, pos) ==
    IF pos < 2 \/ pos > Len(text) THEN FALSE
    ELSE \/ AbbreviationRegexSearch(
                SubSeq(text, Max2(1, pos - 5), Min2(Len(text), pos + 2)))
         \/ pos >= 3 /\ SubSeq(text, pos - 2, pos - 1) = <<"-", "l">>
         \/ /\ text[pos - 1] \in {"t", "p", "d", "s", "r"}
            /\ (pos = 2 \/ IsSpace(text[pos - 2]))

TextSegment(italic, text, start) ==
    [type |-> "text", style |-> IF italic THEN "italic" ELSE "regular",
     text |-> text, start |-> start]

MarkSegment(type, text, start) ==
    [type |-> type, style |-> "", text |-> text, start |-> start]

\* if current_text: content.append({...}); current_text = ""
Flush(st) ==
    IF st.current_text = <<>> THEN st
    ELSE [st EXCEPT
            !.content = Append(st.content,
                TextSegment(st.italic, st.current_text,
                            st.i - Len(st.current_text))),
            !.current_text = <<>>]

\* i += 1 alone: the character is dropped
TakeCharDropped(st, char) == [st EXCEPT !.i = st.i + 1]

\* current_text += char; i += 1
TakeChar(st, char) ==
    [st EXCEPT !.current_text = Append(st.current_text, char), !.i = st.i + 1]

\* char == '_' and (i == 0 or text[i-1] != '\\')
TogglesItalic(text, i) ==
    text[i] = "_" /\ (i = 1 \/ text[i - 1] # "\\")

\* a bracketed element <...>, (...) or {...} that begins at st.i
BracketStep(st, text, type, close) ==
    LET flushed == Flush(st)
    IN  [flushed EXCEPT
            !.content = Append(flushed.content,
                MarkSegment(type, SubSeq(text, st.i + 1, close - 1), st.i + 1)),
            !.i = close + 1]

\* one iteration of the main loop of parse_rich_text
RichStep(st, text) ==
    LET char == text[st.i]
        link_end == Find(text, ">", st.i + 1)
        paren_end == Find(text, ")", st.i + 1)
        brace_end == Find(text, "}", st.i + 1)
    IN  IF TogglesItalic(text, st.i)
        THEN [Flush(st) EXCEPT !.italic = ~st.italic, !.i = st.i + 1]
        ELSE IF char = "<" /\ link_end # 0
        THEN BracketStep(st, text, "link", link_end)
        ELSE IF char = "(" /\ paren_end # 0
        THEN IF Len(Strip(SubSeq(text, st.i + 1, paren_end - 1))) <= 1
             THEN TakeChar(st, char)
             ELSE BracketStep(st, text, "note", paren_end)
        ELSE IF char = "{" /\ brace_end # 0
        THEN BracketStep(st, text, "pos", brace_end)
        ELSE IF char \in {",", ";", ":", ".", "!", "?"}
        THEN IF char = "." /\ is_abbreviation_context(text, st.i)
             THEN TakeChar(st, char)
             ELSE LET flushed == Flush(st)
                  IN  [flushed EXCEPT
                          !.content = Append(flushed.content,
                              MarkSegment("divider", <<char>>, st.i)),
                          !.i = st.i + 1]
        ELSE TakeChar(st, char)

\* one iteration of the loop of _parse_italic_only
ItalicStep(st, text) ==
    IF TogglesItalic(text, st.i)
    THEN [Flush(st) EXCEPT !.italic = ~st.italic, !.i = st.i + 1]
    ELSE TakeChar(st, text[st.i])

RECURSIVE TokenLoop(_, _, _)
TokenLoop(st, text, preserve) ==
    IF st.i > Len(text) THEN Flush(st).content
    ELSE TokenLoop(IF preserve THEN ItalicStep(st, text) ELSE RichStep(st, text),
                   text, preserve)

TokenStart(italic_open) ==
    [i |-> 1, current_text |-> <<>>, italic |-> italic_open, content |-> <<>>]

\* text.startswith('_') and text.endswith('_') and len(text) > 2
WhollyItalic(text) ==
    StartsWith(text, <<"_">>) /\ EndsWith(text, <<"_">>) /\ Len(text) > 2

parse_italic_only(text, italic_open) ==
    IF WhollyItalic(text)
    THEN <<TextSegment(TRUE, SubSeq(text, 2, Len(text) - 1), 2)>>
    ELSE TokenLoop(TokenStart(italic_open), text, TRUE)

parse_rich_text(text, preserve_punctuation, italic_open) ==
    IF text = <<>> THEN <<>>
    ELSE IF preserve_punctuation THEN parse_italic_only(text, italic_open)
    ELSE TokenLoop(TokenStart(italic_open), text, FALSE)

\* bound on the length of a tokenized text
MaxText == 5

TextAlphabet == {"_", "a", "(", ")", "<", ">", "\\", "."}

Texts == UNION {[1..n -> TextAlphabet] : n \in 0..MaxText}

InitTok ==
    /\ ttext \in Texts
    /\ tmode \in [preserve_punctuation : BOOLEAN, italic_open : BOOLEAN]
    /\ tsegs = <<>>
    /\ tpc = "start"
    /\ IdleTree /\ IdlePipe /\ IdleLabel /\ IdleStruct /\ IdleNorm /\ IdleExtra

Tokenize ==
    /\ tpc = "start"
    /\ tsegs' = parse_rich_text(ttext, tmode.preserve_punctuation, tmode.italic_open)
    /\ tpc' = "done"
    /\ UNCHANGED <<ttext, tmode>>
    /\ UNCHANGED <<treeVars, pipeVars, labelVars, structVars, normVars, extraVars>>

NextTok == Tokenize

SpecTok == InitTok /\ [][NextTok]_vars

\* positions of the text a segment's characters come from
Span(seg) == seg.start .. (seg.start + Len(seg.text) - 1)

\* position p lies between an opening and its closing unescaped underscore
InsideItalicRun(text, p) ==
    /\ count_unescaped_underscores(SubSeq(text, 1, p)) % 2 = 1
    /\ count_unescaped_underscores(SubSeq(text, 1, p))
         = count_unescaped_underscores(SubSeq(text, 1, p - 1))

\* C6: for a text with an even number of unescaped underscores, tokenized with
\* italic_open = false, every character of every italic segment lies between
\* an opening and its closing unescaped underscore (no unterminated run).
C6_ItalicParity ==
    (/\ tpc = "done"
     /\ ~tmode.italic_open
     /\ count_unescaped_underscores(ttext) % 2 = 0)
    => \A k \in DOMAIN tsegs :
          (tsegs[k].type = "text" /\ tsegs[k].style = "italic")
          => \A p \in Span(tsegs[k]) : InsideItalicRun(ttext, p)


----------------------------------------------------------------------------
(* normalize_article (parser_v3/normalization.py)                          *)
(* A block is a record holding every key the model uses; an absent key of  *)
(* the source is the key's empty value here (0, "" or <<>>).  The model    *)
(* covers articles without a headword whose body blocks are translations,  *)
(* explanations, illustrations, references, notes and sentence dividers;   *)
(* where the source leaves that ground (headword and idiomatics blocks,    *)
(* note segments inside a translation, '@' link notation, mixed dividers)  *)
(* the operators return the block or item Unmodelled, and DomainCovered    *)
(* states that no run reaches it.  Stand-ins: "sm." and "sr." for the      *)
(* see/compare labels, "ili" and "libo" for the words of the italic-note   *)
(* pattern.                                                                *)

Item(type, style, text) ==
    [type |-> type, style |-> style, text |-> text,
     kind |-> "", target |-> <<>>, mode |-> ""]

Block(type) ==
    [type |-> type, number |-> 0, mode |-> "", text |-> <<>>,
     targets |-> <<>>, content |-> <<>>, children |-> <<>>, eo |-> <<>>]

UnmodelledItem == Item("unmodelled", "", <<>>)
UnmodelledBlock == Block("unmodelled")

\* REFERENCE_LABELS[mode]["default_text"], <<>> for a mode without entry
DefaultReferenceText(mode) ==
    CASE mode = "see" -> <<"s", "m", ".">>
      [] mode = "compare" -> <<"s", "r", ".">>
      [] mode = "synonym" -> <<"=">>
      [] OTHER -> <<>>

\* ", ".join(f"<{target}>" for target in targets)
RECURSIVE JoinTargets(_)
JoinTargets(targets) ==
    IF targets = <<>> THEN <<>>
    ELSE <<"<">> \o Head(targets) \o <<">">>
         \o (IF Len(targets) > 1
             THEN <<",", " ">> \o JoinTargets(Tail(targets))
             ELSE <<>>)

normalize_reference(block) ==
    LET labelled == IF block.text = <<>>
                    THEN [block EXCEPT !.text = DefaultReferenceText(block.mode)]
                    ELSE block
    IN  IF block.mode = "synonym"
        THEN [labelled EXCEPT !.text =
                IF block.targets # <<>>
                THEN <<"(", "=", " ">> \o JoinTargets(block.targets) \o <<")">>
                ELSE <<"(", "=", ")">>]
        ELSE labelled

\* re.search(r"\b<lit>\b", text)
ContainsWord(text, lit) ==
    \E k \in 1..Len(text) :
        /\ k + Len(lit) - 1 <= Len(text)
        /\ SubSeq(text, k, k + Len(lit) - 1) = lit
        /\ k = 1 \/ ~IsWordChar(text[k - 1])
        /\ k + Len(lit) > Len(text) \/ ~IsWordChar(text[k + Len(lit)])

should_include_italic_segment(text) ==
    /\ text # <<>>
    /\ \/ StartsWith(text, <<"(">>)
       \/ EndsWith(text, <<")">>)
       \/ ContainsWord(Lower(text), <<"i", "l", "i">>)
       \/ ContainsWord(Lower(text), <<"l", "i", "b", "o">>)

\* _needs_space(before, next_text) of _reconstruct_ru_text_from_content
NeedsSpace(before, next_text) ==
    /\ before # <<>>
    /\ ~IsSpace(before[Len(before)])
    /\ before[Len(before)] \notin {",", ";", ":", "(", "-"}
    /\ next_text # <<>>
    /\ next_text[1] \notin {",", ";", ":", ".", ")"}

RECURSIVE ReconstructLoop(_, _)
ReconstructLoop(content, buffer) ==
    IF content = <<>> THEN Strip(buffer)
    ELSE LET item == Head(content)
             next == IF item.text = <<>> \/ item.type = "label" THEN buffer
                     ELSE IF item.type = "divider"
                     THEN buffer \o item.text
                          \o (IF item.text \in {<<",">>, <<";">>, <<":">>}
                              THEN <<" ">> ELSE <<>>)
                     ELSE buffer
                          \o (IF NeedsSpace(buffer, item.text)
                              THEN <<" ">> ELSE <<>>)
                          \o item.text
         IN  ReconstructLoop(Tail(content), next)

reconstruct_ru_text_from_content(content) == ReconstructLoop(content, <<>>)

RuSegment(kind, text) ==
    [kind |-> kind, text |-> text, target |-> <<>>, mode |-> ""]

\* label_modes of split_ru_segments; "" when text is no reference label
LabelMode(text) ==
    IF text \in {<<"s", "m">>, <<"s", "m", ".">>} THEN "see"
    ELSE IF text \in {<<"s", "r">>, <<"s", "r", ".">>} THEN "compare"
    ELSE ""

categorize_divider(symbol) ==
    CASE symbol = <<",">> -> "near_divider"
      [] symbol = <<";">> -> "far_divider"
      [] symbol = <<".">> -> "sentence_divider"
      [] symbol = <<":">> -> "phrase_divider"
      [] symbol \in {<<"!">>, <<"?">>} -> "sentence_divider"
      [] OTHER -> "divider"

\* one iteration of split_ru_segments on st = [segments, active, pending];
\* pending is the index of pending_label_segment in segments, 0 for None
SplitRuStep(st, part) ==
    LET text == Strip(part.text)
    IN  IF part.type = "text"
        THEN IF text = <<>> THEN st
             ELSE IF part.style = "italic" /\ LabelMode(text) # ""
             THEN [segments |-> Append(st.segments,
                        [RuSegment("reference", text)
                            EXCEPT !.mode = LabelMode(text)]),
                   active |-> LabelMode(text),
                   pending |-> Len(st.segments) + 1]
             ELSE [segments |-> Append(st.segments, RuSegment("term", text)),
                   active |-> "", pending |-> 0]
        ELSE IF part.type = "divider"
        THEN IF part.text = <<>> THEN st
             ELSE IF st.pending # 0 /\ part.text = <<".">>
             THEN [st EXCEPT
                     !.segments[st.pending].text = @ \o <<".">>,
                     !.pending = 0]
             ELSE [segments |-> Append(st.segments,
                        RuSegment(categorize_divider(part.text), part.text)),
                   active |-> IF part.text \in {<<".">>, <<"!">>, <<"?">>}
                              THEN "" ELSE st.active,
                   pending |-> 0]
        ELSE IF part.type = "link"
        THEN [st EXCEPT
                !.segments = IF text = <<>> THEN @
                             ELSE Append(@, [RuSegment("link", text)
                                    EXCEPT !.target = text, !.mode = st.active]),
                !.pending = 0]
        ELSE IF part.type = "note"
        THEN [st EXCEPT
                !.segments = IF text = <<>> THEN @
                             ELSE Append(@, RuSegment("note", text)),
                !.pending = 0]
        ELSE st

RECURSIVE SplitRuLoop(_, _)
SplitRuLoop(st, parts) ==
    IF parts = <<>> THEN st.segments
    ELSE SplitRuLoop(SplitRuStep(st, Head(parts)), Tail(parts))

\* text_parser.split_ru_segments(parts)
split_ru_segments(parts) ==
    SplitRuLoop([segments |-> <<>>, active |-> "", pending |-> 0], parts)

\* one segment of _convert_ru_segments_to_content
ConvertRuSegment(segment) ==
    CASE segment.kind = "term" -> Item("text", "regular", segment.text)
      [] segment.kind \in {"near_divider", "far_divider", "sentence_divider",
                           "phrase_divider", "divider"} ->
            [Item("divider", "", segment.text) EXCEPT !.kind = segment.kind]
      [] segment.kind = "reference" ->
            [Item("reference", "", segment.text) EXCEPT !.mode = segment.mode]
      [] segment.kind = "link" /\ ~Contains(segment.target, "@") ->
            [Item("link", "", segment.text) EXCEPT
                !.target = Strip(segment.target), !.mode = segment.mode]
      [] OTHER -> UnmodelledItem

\* the closing merge of _convert_ru_segments_to_content joins two regular
\* texts when the first holds a parenthesis and ends with ")"
MergesRegularTexts(converted) ==
    \E k \in 1..(Len(converted) - 1) :
        /\ converted[k].type = "text" /\ converted[k].style = "regular"
        /\ converted[k + 1].type = "text" /\ converted[k + 1].style = "regular"
        /\ EndsWith(converted[k].text, <<")">>)
        /\ Contains(converted[k].text, "(")

convert_ru_segments_to_content(segments) ==
    LET converted == [k \in DOMAIN segments |-> ConvertRuSegment(segments[k])]
    IN  IF MergesRegularTexts(converted) THEN <<UnmodelledItem>> ELSE converted

\* filtered_items of _build_ru_segments_from_translation
RECURSIVE FilterRuItems(_)
FilterRuItems(content) ==
    IF content = <<>> THEN <<>>
    ELSE LET item == Head(content)
             text == Strip(item.text)
             kept ==
                IF item.type = "divider"
                THEN IF item.text # <<>> THEN <<item>> ELSE <<>>
                ELSE IF item.type # "text" \/ text = <<>> THEN <<>>
                ELSE IF item.style = "regular"
                THEN IF text \in {<<"(">>, <<")">>} THEN <<>>
                     ELSE <<Item("text", "regular", text)>>
                ELSE IF item.style = "italic"
                        /\ should_include_italic_segment(text)
                THEN <<Item("text", "italic", text)>>
                ELSE <<>>
         IN  kept \o FilterRuItems(Tail(content))

\* tokenizer segments as parts: the source's nodes carry no position
AsParts(segments) ==
    [k \in DOMAIN segments |->
        Item(segments[k].type, segments[k].style, segments[k].text)]

\* _build_ru_segments_from_translation(content); <<>> for None
build_ru_segments_from_translation(content) ==
    LET combined_text == reconstruct_ru_text_from_content(FilterRuItems(content))
    IN  IF combined_text = <<>> THEN <<>>
        ELSE split_ru_segments(AsParts(parse_rich_text(combined_text, FALSE, FALSE)))

HasDividerKind(content, kind, char) ==
    \E k \in DOMAIN content :
        /\ content[k].type = "divider"
        /\ \/ content[k].kind = kind
           \/ content[k].kind = "" /\ content[k].text = <<char>>

\* _detect_mixed_dividers: seen_near and seen_far
MixedDividers(content) ==
    HasDividerKind(content, "near_divider", ",")
    /\ HasDividerKind(content, "far_divider", ";")

\* prefix of _normalize_translation: what the rebuilt segments do not replace
RECURSIVE TranslationPrefix(_)
TranslationPrefix(content) ==
    IF content = <<>> THEN <<>>
    ELSE LET item == Head(content)
             replaced ==
                /\ item.type = "text"
                /\ \/ item.style = "regular"
                   \/ /\ item.style = "italic"
                      /\ should_include_italic_segment(Strip(item.text))
         IN  (IF replaced THEN <<>> ELSE <<item>>)
             \o TranslationPrefix(Tail(content))

normalize_translation(block) ==
    LET ru_segments == build_ru_segments_from_translation(block.content)
        rebuilt == TranslationPrefix(block.content)
                   \o convert_ru_segments_to_content(ru_segments)
    IN  IF MixedDividers(block.content) THEN UnmodelledBlock
        ELSE IF ru_segments = <<>> THEN block
        ELSE IF MixedDividers(rebuilt) THEN UnmodelledBlock
        ELSE [block EXCEPT !.content = rebuilt]

\* REFERENCE_LABEL_MODES.get(label_text.lower()) is set
IsReferenceLabel(text) ==
    LabelMode(Lower(Strip(text))) # "" \/ Strip(text) = <<"=">>

\* _normalize_explanation: an explanation that opens with a reference label
\* and holds a <link> becomes a reference block
normalize_explanation(block) ==
    IF /\ block.content # <<>>
       /\ block.content[1].type = "text"
       /\ IsReferenceLabel(block.content[1].text)
       /\ \E k \in 2..Len(block.content) :
            /\ block.content[k].type = "text"
            /\ Contains(block.content[k].text, "<")
    THEN UnmodelledBlock
    ELSE block

\* _normalize_note: an explanation child becomes an illustration
normalize_note(block) ==
    [block EXCEPT !.children =
        [k \in DOMAIN block.children |->
            IF block.children[k].type = "explanation"
            THEN [Block("illustration") EXCEPT
                    !.content = block.children[k].content]
            ELSE block.children[k]]]

RECURSIVE transform_block(_)
transform_block(block) ==
    LET referenced == IF block.type = "reference"
                      THEN normalize_reference(block) ELSE block
        typed ==
            CASE block.type = "note" -> normalize_note(referenced)
              [] block.type = "translation" -> normalize_translation(referenced)
              [] block.type = "explanation" -> normalize_explanation(referenced)
              [] block.type \in {"idiomatics", "headword"} -> UnmodelledBlock
              [] OTHER -> referenced
    IN  [typed EXCEPT !.children =
            [k \in DOMAIN typed.children |-> transform_block(typed.children[k])]]

\* index at which _insert_reference_child inserts: before the first child
\* that is no explanation, note or reference
InsertAt(children) ==
    IF \E k \in DOMAIN children :
            children[k].type \notin {"explanation", "note", "reference"}
    THEN CHOOSE k \in DOMAIN children :
            /\ children[k].type \notin {"explanation", "note", "reference"}
            /\ \A j \in 1..(k - 1) :
                 children[j].type \in {"explanation", "note", "reference"}
    ELSE Len(children) + 1

\* _adjust_parenthetical_reference: an explanation child before the
\* reference opens a parenthesis
OpenParenthesis(children, insert_at) ==
    \E k \in 1..(insert_at - 1) :
        /\ children[k].type = "explanation"
        /\ \E n \in DOMAIN children[k].content :
            /\ children[k].content[n].type = "text"
            /\ StartsWith(Strip(children[k].content[n].text), <<"(">>)

\* the reference text _adjust_parenthetical_reference leaves
AdjustedReferenceText(text_value, open_parenthesis) ==
    IF open_parenthesis
    THEN LET bare == IF StartsWith(text_value, <<"(", "=">>)
                     THEN LStrip(SubSeq(text_value, 3, Len(text_value)))
                     ELSE text_value
             equal == IF bare = <<>> THEN <<"=">>
                      ELSE IF StartsWith(bare, <<"=">>) THEN bare
                      ELSE <<"=", " ">> \o bare
             closed == IF EndsWith(equal, <<")">>) THEN equal
                       ELSE RStrip(equal) \o <<")">>
         IN  <<" ">> \o LStrip(closed)
    ELSE IF text_value # <<>> /\ ~StartsWith(text_value, <<" ">>)
         THEN <<" ">> \o LStrip(text_value)
         ELSE text_value

\* [A-Za-z0-9`'] of the suffix pattern
IsSuffixChar(c) == IsLetter(c) \/ IsDigit(c) \/ c \in {"^", "'"}

\* length of the run of suffix characters that ends s
RECURSIVE TrailingSuffix(_)
TrailingSuffix(s) ==
    IF s # <<>> /\ IsSuffixChar(s[Len(s)])
    THEN 1 + TrailingSuffix(SubSeq(s, 1, Len(s) - 1))
    ELSE 0

\* index of the last text node of content, 0 when there is none
LastTextIndex(content) ==
    IF \E k \in DOMAIN content : content[k].type = "text"
    THEN CHOOSE k \in DOMAIN content :
            /\ content[k].type = "text"
            /\ \A j \in (k + 1)..Len(content) : content[j].type # "text"
    ELSE 0

\* _insert_reference_child(parent, reference), with the adjustment of
\* _adjust_parenthetical_reference; returns the parent
insert_reference_child(parent, reference) ==
    LET insert_at == InsertAt(parent.children)
        adjusted == [reference EXCEPT !.text =
                        AdjustedReferenceText(reference.text,
                            OpenParenthesis(parent.children, insert_at))]
        n == LastTextIndex(parent.content)
        payload == IF n = 0 THEN <<>> ELSE RStrip(parent.content[n].text)
        inner == SubSeq(payload, 1, Len(payload) - 1)
        run == IF EndsWith(payload, <<")">>) THEN TrailingSuffix(inner) ELSE 0
        suffix == SubSeq(inner, Len(inner) - run + 1, Len(inner))
        moved == [adjusted EXCEPT
                    !.targets = IF adjusted.targets = <<>> THEN <<>>
                                ELSE [adjusted.targets EXCEPT
                                        ![Len(adjusted.targets)] =
                                            @ \o suffix \o <<")">>],
                    !.text = IF EndsWith(adjusted.text, <<")">>)
                             THEN SubSeq(adjusted.text, 1, Len(adjusted.text) - 1)
                                  \o suffix \o <<")">>
                             ELSE adjusted.text \o suffix \o <<")">>]
        child == IF run = 0 THEN adjusted ELSE moved
        content == IF run = 0 THEN parent.content
                   ELSE [parent.content EXCEPT
                            ![n].text = RStrip(SubSeq(inner, 1, Len(inner) - run))]
    IN  [parent EXCEPT
            !.content = content,
            !.children = SubSeq(parent.children, 1, insert_at - 1)
                         \o <<child>>
                         \o SubSeq(parent.children, insert_at, Len(parent.children))]

RECURSIVE AttachLoop(_, _)
AttachLoop(blocks, result) ==
    IF blocks = <<>> THEN result
    ELSE LET block == Head(blocks)
             attaches ==
                /\ block.type = "reference"
                /\ result # <<>>
                /\ result[Len(result)].type \in
                     {"translation", "explanation", "illustration", "headword"}
         IN  AttachLoop(Tail(blocks),
                IF attaches
                THEN [result EXCEPT ![Len(result)] =
                        insert_reference_child(result[Len(result)], block)]
                ELSE Append(result, block))

attach_orphan_references(blocks) == AttachLoop(blocks, <<>>)

\* DIVIDER_KIND_BY_CHAR.get(text, "divider")
DividerKindByChar(text) ==
    CASE text = <<",">> -> "near_divider"
      [] text = <<";">> -> "far_divider"
      [] text = <<".">> -> "sentence_divider"
      [] text = <<":">> -> "phrase_divider"
      [] OTHER -> "divider"

\* a text item of a merged illustration joins the translation's content
MergeTextItem(content_list, text_value) ==
    LET last_item == content_list[Len(content_list)]
        previous_text == last_item.text
        trimmed == RStrip(previous_text)
        joins ==
            /\ content_list # <<>>
            /\ last_item.type = "text" /\ last_item.style = "regular"
            /\ trimmed # <<>>
            /\ trimmed[Len(trimmed)] \notin {",", ";", ":", ".", "(", "-"}
            /\ text_value[1] \notin {",", ";", ":", ".", ")", "-"}
        separator == IF previous_text[Len(previous_text)] \in {" ", "-"}
                     THEN <<>> ELSE <<" ">>
    IN  IF joins
        THEN [content_list EXCEPT ![Len(content_list)].text =
                trimmed \o separator \o text_value]
        ELSE Append(content_list, Item("text", "regular", text_value))

\* one item of the illustration's content, on
\* st = [content, trailing, mode, text, targets, outside]
MergeItemStep(st, item) ==
    LET text_value == Strip(item.text)
        normalized == Lower(RStripDots(text_value))
        target_value == Strip(IF item.target # <<>> THEN item.target
                              ELSE item.text)
    IN  IF item.type = "text"
        THEN IF text_value = <<>> THEN st
             ELSE IF item.style = "italic"
                     /\ normalized \in {<<"s", "m">>, <<"s", "r">>}
             THEN [st EXCEPT
                     !.mode = IF normalized = <<"s", "r">> THEN "compare"
                              ELSE "see",
                     !.text = text_value]
             ELSE [st EXCEPT !.content = MergeTextItem(st.content, text_value)]
        ELSE IF item.type = "divider"
        THEN IF item.text = <<>> THEN st
             ELSE IF item.text = <<".">> THEN [st EXCEPT !.trailing = TRUE]
             ELSE [st EXCEPT !.content = Append(st.content,
                     [Item("divider", "", item.text) EXCEPT
                         !.kind = DividerKindByChar(item.text)])]
        ELSE IF item.type = "link"
        THEN IF target_value = <<>> THEN st
             ELSE [st EXCEPT !.targets = Append(st.targets, target_value)]
        ELSE [st EXCEPT !.outside = TRUE]

RECURSIVE MergeItems(_, _)
MergeItems(st, content) ==
    IF content = <<>> THEN st
    ELSE MergeItems(MergeItemStep(st, Head(content)), Tail(content))

HasLetters(value) == \E k \in DOMAIN value : IsLetter(value[k])

\* the test of _merge_plain_russian_illustrations on one block
IsPlainIllustration(block) ==
    /\ block.type = "illustration"
    /\ ~HasLetters(block.eo)
    /\ block.content # <<>>
    /\ \A k \in DOMAIN block.content :
        block.content[k].type \in {"text", "divider", "note", "link"}

\* the illustration's content is merged into the translation target; the
\* blocks returned replace the target: the target, then the sentence divider
MergeIntoTranslation(target, block) ==
    LET st == MergeItems([content |-> target.content, trailing |-> FALSE,
                          mode |-> "", text |-> <<>>, targets |-> <<>>,
                          outside |-> FALSE],
                         block.content)
        reference_block ==
            [Block("reference") EXCEPT
                !.mode = IF st.mode = "" THEN "see" ELSE st.mode,
                !.targets = st.targets,
                !.text = st.text]
        merged == [target EXCEPT
                    !.content = st.content,
                    !.children = IF st.targets = <<>> THEN @
                                 ELSE Append(@, reference_block)]
    IN  IF st.outside \/ MixedDividers(st.content) THEN <<UnmodelledBlock>>
        ELSE <<merged>>
             \o (IF st.trailing
                 THEN <<[Block("sentence_divider") EXCEPT !.text = <<".">>]>>
                 ELSE <<>>)

RECURSIVE merge_plain_russian_illustrations(_)
RECURSIVE MergePlainLoop(_, _)
MergePlainLoop(body, result) ==
    IF body = <<>> THEN result
    ELSE LET block == [Head(body) EXCEPT
                        !.children = merge_plain_russian_illustrations(@)]
             continues == result # <<>>
                          /\ result[Len(result)].type = "translation"
         IN  MergePlainLoop(Tail(body),
                IF ~IsPlainIllustration(block) THEN Append(result, block)
                ELSE IF continues
                THEN SubSeq(result, 1, Len(result) - 1)
                     \o MergeIntoTranslation(result[Len(result)], block)
                ELSE result
                     \o MergeIntoTranslation(Block("translation"), block))

merge_plain_russian_illustrations(body) == MergePlainLoop(body, <<>>)

\* _expand_tilde_in_blocks with an empty context (no headword: no lemmas and
\* no bases, so no tilde is replaced); an illustration left without eo would
\* have its eo derived from its text
RECURSIVE expand_tilde_in_blocks(_)
expand_tilde_in_blocks(blocks) ==
    [k \in DOMAIN blocks |->
        IF \/ blocks[k].type = "headword"
           \/ /\ blocks[k].type = "illustration"
              /\ blocks[k].eo = <<>>
              /\ \E n \in DOMAIN blocks[k].content :
                    /\ blocks[k].content[n].type = "text"
                    /\ Strip(blocks[k].content[n].text) # <<>>
        THEN UnmodelledBlock
        ELSE [blocks[k] EXCEPT !.children = expand_tilde_in_blocks(@)]]

\* normalize_article(article) for an article without headword
normalize_article(art) ==
    LET transformed_body ==
            [k \in DOMAIN art.body |-> transform_block(art.body[k])]
        attached == attach_orphan_references(transformed_body)
        merged == merge_plain_russian_illustrations(attached)
    IN  [headword |-> art.headword,
         body |-> expand_tilde_in_blocks(merged)]

\* bodies of at most MaxBody blocks are normalized
MaxBody == 3

TextItem(style, text) == Item("text", style, text)

\* blocks as legacy_parser.parse_article leaves them in an article body
NormBlockSet ==
    { [Block("translation") EXCEPT !.content = <<>>],
      [Block("translation") EXCEPT
            !.content = <<TextItem("regular", <<"r", "u">>)>>],
      [Block("translation") EXCEPT
            !.children = <<[Block("explanation") EXCEPT
                !.content = <<TextItem("italic", <<"(", "e">>)>>]>>],
      [Block("translation") EXCEPT
            !.content = <<TextItem("regular", <<"r", "u">>),
                          Item("label", "", <<"l", ".">>)>>],
      [Block("explanation") EXCEPT
            !.content = <<TextItem("italic", <<"e">>)>>],
      [Block("explanation") EXCEPT
            !.content = <<TextItem("italic", <<"e", " ", "a", ")">>)>>],
      [Block("illustration") EXCEPT
            !.content = <<TextItem("regular", <<"r", "u">>)>>],
      [Block("illustration") EXCEPT !.eo = <<"e">>],
      [Block("illustration") EXCEPT
            !.content = <<TextItem("italic", <<"s", "r", ".">>),
                          Item("link", "", <<"x">>)>>],
      [Block("illustration") EXCEPT
            !.content = <<TextItem("regular", <<"a">>),
                          Item("divider", "", <<".">>)>>],
      [Block("reference") EXCEPT
            !.mode = "see", !.targets = << <<"x">> >>,
            !.text = <<"s", "m", ".">>],
      [Block("reference") EXCEPT
            !.mode = "synonym", !.targets = << <<"x">> >>],
      [Block("reference") EXCEPT
            !.mode = "link", !.targets = << <<"x">> >>],
      [Block("note") EXCEPT
            !.content = <<TextItem("italic", <<"(", "n", ")">>)>>],
      [Block("sentence_divider") EXCEPT !.text = <<".">>] }

Bodies == UNION { [1..n -> NormBlockSet] : n \in 0..MaxBody }

InitNorm ==
    /\ nin \in { [headword |-> None, body |-> b] : b \in Bodies }
    /\ nout1 = NoArticle
    /\ nout2 = NoArticle
    /\ npc = "start"
    /\ IdleTree /\ IdlePipe /\ IdleLabel /\ IdleStruct /\ IdleTok /\ IdleExtra

\* normalize_article(article)
Normalize ==
    /\ npc = "start"
    /\ nout1' = normalize_article(nin)
    /\ npc' = "once"
    /\ UNCHANGED <<nin, nout2>>
    /\ UNCHANGED <<treeVars, pipeVars, labelVars, structVars, tokVars, extraVars>>

\* normalize_article applied to its own result
NormalizeAgain ==
    /\ npc = "once"
    /\ nout2' = normalize_article(nout1)
    /\ npc' = "twice"
    /\ UNCHANGED <<nin, nout1>>
    /\ UNCHANGED <<treeVars, pipeVars, labelVars, structVars, tokVars, extraVars>>

NextNorm == Normalize \/ NormalizeAgain

SpecNorm == InitNorm /\ [][NextNorm]_vars

RECURSIVE HasUnmodelled(_)
HasUnmodelled(blocks) ==
    \E k \in DOMAIN blocks :
        \/ blocks[k].type = "unmodelled"
        \/ \E n \in DOMAIN blocks[k].content :
                blocks[k].content[n].type = "unmodelled"
        \/ HasUnmodelled(blocks[k].children)

\* no run leaves the part of normalize_article the operators cover
DomainCovered == ~HasUnmodelled(nout1.body) /\ ~HasUnmodelled(nout2.body)

\* C5: normalize_article is idempotent: normalizing the output of
\* normalize_article again returns that same output, reference texts and
\* children lists included.
C5_NormalizeIdempotent == npc = "twice" => nout2 = nout1

\* the reference at index k of body follows a translation, explanation,
\* illustration or headword block, or references that follow such a block
Attachable(body, k) ==
    /\ body[k].type = "reference"
    /\ \E j \in 1..(k - 1) :
        /\ body[j].type \in
             {"translation", "explanation", "illustration", "headword"}
        /\ \A n \in (j + 1)..(k - 1) : body[n].type = "reference"

TopLevelReferences(body) ==
    Cardinality({k \in DOMAIN body : body[k].type = "reference"})

RECURSIVE ChildReferences(_)
ChildReferences(body) ==
    IF body = <<>> THEN 0
    ELSE TopLevelReferences(Head(body).children) + ChildReferences(Tail(body))

\* C10: after normalize_article every top-level reference that follows a
\* translation, explanation, illustration or headword block (or references
\* attached to it) is no top-level entry any more and is found among the
\* children of a body block.
C10_ReferencesBecomeChildren ==
    npc = "once" =>
        LET attachable == {k \in DOMAIN nin.body : Attachable(nin.body, k)}
        IN  /\ TopLevelReferences(nout1.body)
                = TopLevelReferences(nin.body) - Cardinality(attachable)
            /\ ChildReferences(nout1.body) >= Cardinality(attachable)

----------------------------------------------------------------------------
(* Notes in parentheses: the preserve mode of the legacy parse_rich_text,  *)
(* merge_punctuation_with_italic and absorb_parentheses_into_italic        *)
(* (parser_v2.0_clean.py)                                                  *)

\* a text segment of the legacy parser
LegacySegment(style, text) == [type |-> "text", style |-> style, text |-> text]

\* the segments of the italic loop, as the legacy parser holds them
LegacyItalicLoop(text, italic_open) ==
    LET segs == TokenLoop(TokenStart(italic_open), text, TRUE)
    IN  [k \in DOMAIN segs |-> LegacySegment(segs[k].style, segs[k].text)]

\* parse_rich_text(text, preserve_punctuation=True, italic_open): a text that
\* begins and ends with an underscore is one italic segment, any other text
\* that begins with one is split with the italic state closed at its start
legacy_parse_rich_text_preserve(text, italic_open) ==
    IF StartsWith(text, <<"_">>)
    THEN IF text[Len(text)] = "_"
         THEN <<LegacySegment("italic", SubSeq(text, 2, Len(text) - 1))>>
         ELSE LegacyItalicLoop(text, FALSE)
    ELSE LegacyItalicLoop(text, italic_open)

\* the length of the match of the split pattern
\* (_|<[^>]+>|\([^)]+\)|\{[^}]+\}|[,;:.!?]) at position i, 0 without match
BracketMatchLen(text, i, close) ==
    IF Find(text, close, i + 1) >= i + 2 THEN Find(text, close, i + 1) - i + 1
    ELSE 0

DelimiterLen(text, i) ==
    CASE text[i] = "_" -> 1
      [] text[i] = "<" -> BracketMatchLen(text, i, ">")
      [] text[i] = "(" -> BracketMatchLen(text, i, ")")
      [] text[i] = "{" -> BracketMatchLen(text, i, "}")
      [] text[i] \in {",", ";", ":", ".", "!", "?"} -> 1
      [] OTHER -> 0

\* re.split(pattern, text): the texts between the delimiters and the
\* delimiters, in turn
RECURSIVE SplitParts(_, _, _)
SplitParts(text, i, current) ==
    IF i > Len(text) THEN <<current>>
    ELSE IF DelimiterLen(text, i) = 0
    THEN SplitParts(text, i + 1, Append(current, text[i]))
    ELSE <<current, SubSeq(text, i, i + DelimiterLen(text, i) - 1)>>
            \o SplitParts(text, i + DelimiterLen(text, i), <<>>)

\* a part in parentheses too short for a note, or one that opens with the
\* grave (written "^")
IsOptionalPart(paren_content) ==
    Len(Strip(paren_content)) <= 1 \/ StartsWith(LStrip(paren_content), <<"^">>)

\* parts[i + 1] can take the optional part before it
TakesPrefix(parts, i) ==
    /\ i + 1 <= Len(parts)
    /\ parts[i + 1] # <<>>
    /\ parts[i + 1][1] \notin {"<", "{", "_"}
    /\ parts[i + 1] \notin {<<",">>, <<";">>, <<":">>, <<".">>, <<"!">>, <<"?">>}

\* the state of the loop over the parts after the part at position st.i
LegacyPartStep(st, part) ==
    IF part = <<>> THEN [st EXCEPT !.i = @ + 1]
    ELSE IF part = <<"_">> THEN [st EXCEPT !.italic = ~@, !.i = @ + 1]
    ELSE IF StartsWith(part, <<"<">>) /\ EndsWith(part, <<">">>)
    THEN [st EXCEPT !.i = @ + 1, !.content = Append(@,
            [type |-> "link", style |-> "", text |-> SubSeq(part, 2, Len(part) - 1)])]
    ELSE IF StartsWith(part, <<"(">>) /\ EndsWith(part, <<")">>)
    THEN IF IsOptionalPart(SubSeq(part, 2, Len(part) - 1))
         THEN IF st.content # <<>> /\ st.content[Len(st.content)].type = "text"
              THEN [st EXCEPT !.i = @ + 1,
                              !.content[Len(st.content)].text = @ \o part]
              ELSE IF TakesPrefix(st.parts, st.i)
              THEN [st EXCEPT !.i = @ + 1, !.parts[st.i + 1] = part \o @]
              ELSE [st EXCEPT !.i = @ + 1,
                              !.content = Append(@, LegacySegment("regular", part))]
         ELSE [st EXCEPT !.i = @ + 1, !.content = Append(@,
                [type |-> "note", style |-> "", text |-> SubSeq(part, 2, Len(part) - 1)])]
    ELSE IF StartsWith(part, <<"{">>) /\ EndsWith(part, <<"}">>)
    THEN [st EXCEPT !.i = @ + 1, !.content = Append(@,
            [type |-> "pos", style |-> "", text |-> SubSeq(part, 2, Len(part) - 1)])]
    ELSE IF part \in {<<",">>, <<";">>, <<":">>, <<".">>, <<"!">>, <<"?">>}
    THEN [st EXCEPT !.i = @ + 1, !.content = Append(@,
            [type |-> "divider", style |-> "", text |-> part])]
    ELSE [st EXCEPT !.i = @ + 1, !.content = Append(@,
            LegacySegment(IF st.italic THEN "italic" ELSE "regular", part))]

RECURSIVE LegacyPartLoop(_)
LegacyPartLoop(st) ==
    IF st.i > Len(st.parts) THEN st.content
    ELSE LegacyPartLoop(LegacyPartStep(st, st.parts[st.i]))

\* parse_rich_text(text, preserve_punctuation=False, italic_open) of the
\* legacy parser
legacy_parse_rich_text_normal(text, italic_open) ==
    LegacyPartLoop([parts |-> SplitParts(text, 1, <<>>), i |-> 1,
                    italic |-> italic_open, content |-> <<>>])

\* all(ch in ',;:.!?' for ch in text), for a non-empty text
IsPunctuationOnly(text) ==
    text # <<>> /\ \A k \in DOMAIN text : text[k] \in {",", ";", ":", ".", "!", "?"}

RECURSIVE MergePunctuationLoop(_, _)
MergePunctuationLoop(content, merged) ==
    IF content = <<>> THEN merged
    ELSE LET segment == Head(content)
         IN  IF /\ merged # <<>>
                /\ segment.type = "text" /\ segment.style = "regular"
                /\ IsPunctuationOnly(segment.text)
                /\ merged[Len(merged)].type = "text"
                /\ merged[Len(merged)].style = "italic"
             THEN MergePunctuationLoop(Tail(content),
                    [merged EXCEPT ![Len(merged)].text = @ \o segment.text])
             ELSE MergePunctuationLoop(Tail(content), Append(merged, segment))

merge_punctuation_with_italic(content) == MergePunctuationLoop(content, <<>>)

\* text.rfind(c), 1-based, 0 when absent
RECURSIVE RFind(_, _)
RFind(text, c) ==
    IF text = <<>> THEN 0
    ELSE IF text[Len(text)] = c THEN Len(text)
    ELSE RFind(SubSeq(text, 1, Len(text) - 1), c)

\* idx != -1 and text[idx:].strip() == c
EndsWithParen(text, c) ==
    RFind(text, c) # 0 /\ Strip(SubSeq(text, RFind(text, c), Len(text))) = <<c>>

\* content without its k-th segment
WithoutSegment(content, k) ==
    SubSeq(content, 1, k - 1) \o SubSeq(content, k + 1, Len(content))

\* the transfer of the parenthesis c that ends the previous segment into the
\* italic segment at i: [content, i] for the next iteration
TransferLeft(content, i, c) ==
    LET text == content[i - 1].text
        idx_paren == RFind(text, c)
        transfer == SubSeq(text, idx_paren, Len(text))
        remaining == SubSeq(text, 1, idx_paren - 1)
        moved == [content EXCEPT ![i].text = transfer \o @,
                                 ![i - 1].text = remaining]
    IN  IF remaining # <<>> THEN [content |-> moved, i |-> i]
        ELSE [content |-> WithoutSegment(moved, i - 1), i |-> i - 1]

\* the closing parenthesis left where it is
TransferRightSkipped(content, i) == [content |-> content, i |-> i + 1]

\* the transfer of the closing parenthesis that begins the next segment
TransferRight(content, i) ==
    LET text == content[i + 1].text
        stripped == LStrip(text)
        transfer == SubSeq(text, 1, Len(text) - Len(stripped) + 1)
        remainder == Tail(stripped)
        moved == [content EXCEPT ![i].text = @ \o transfer,
                                 ![i + 1].text = remainder]
    IN  IF remainder # <<>> THEN [content |-> moved, i |-> i]
        ELSE [content |-> WithoutSegment(moved, i + 1), i |-> i]

\* one iteration of the loop of absorb_parentheses_into_italic, i 1-based
AbsorbStep(content, i) ==
    IF content[i].type # "text" \/ content[i].style # "italic"
    THEN [content |-> content, i |-> i + 1]
    ELSE IF i > 1 /\ content[i - 1].type = "text"
            /\ EndsWithParen(content[i - 1].text, "(")
    THEN TransferLeft(content, i, "(")
    ELSE IF i > 1 /\ content[i - 1].type = "text"
            /\ EndsWithParen(content[i - 1].text, ")")
    THEN TransferLeft(content, i, ")")
    ELSE IF i < Len(content) /\ content[i + 1].type = "text"
            /\ StartsWith(LStrip(content[i + 1].text), <<")">>)
    THEN TransferRight(content, i)
    ELSE [content |-> content, i |-> i + 1]

RECURSIVE AbsorbLoop(_)
AbsorbLoop(st) ==
    IF st.i > Len(st.content) THEN st.content
    ELSE AbsorbLoop(AbsorbStep(st.content, st.i))

absorb_parentheses_into_italic(content) == AbsorbLoop([content |-> content, i |-> 1])

----------------------------------------------------------------------------
(* ParsingPipeline.parse_article (parser_v3/pipeline.py) on chunks without *)
(* a bracketed head line: the legacy parse_article and                     *)
(* parse_headword_remainder (parser_v2.0_clean.py), then normalize_article.*)
(* A chunk is the sequence of its lines.  The model covers chunks with at  *)
(* most one relevant line, made of letters, digits, "$", blanks and the    *)
(* sentence marks; elsewhere the body is the block Unmodelled, and         *)
(* PipeDomainCovered states that no run reaches it.                        *)

EmptyArticle == [headword |-> None, body |-> <<>>]
UnmodelledArticle == [headword |-> None, body |-> <<UnmodelledBlock>>]

\* text_parser.preprocess_text: trailing blanks leave every line
tp_preprocess_text(lines) == [k \in DOMAIN lines |-> RStrip(lines[k])]

\* index of the first "!!!" of line, 0 when there is none
CommentStart(line) ==
    IF \E k \in 1..(Len(line) - 2) : SubSeq(line, k, k + 2) = <<"!", "!", "!">>
    THEN CHOOSE k \in 1..(Len(line) - 2) :
            /\ SubSeq(line, k, k + 2) = <<"!", "!", "!">>
            /\ \A j \in 1..(k - 1) : SubSeq(line, j, j + 2) # <<"!", "!", "!">>
    ELSE 0

\* text the replacements of preprocess_text and normalize_encoding rewrite:
\* x-system digraphs, "<<", ">>", "--" and "{{"
IsRewritten(line) ==
    \E k \in 1..(Len(line) - 1) :
        \/ line[k] \in {"c", "g", "h", "j", "s", "u", "C"} /\ line[k + 1] = "x"
        \/ line[k] = line[k + 1] /\ line[k] \in {"<", ">", "-", "{"}

\* preprocess_text on one line: re.sub(r'!!!.*$', '', text, MULTILINE)
preprocess_text(line) ==
    IF CommentStart(line) = 0 THEN line
    ELSE SubSeq(line, 1, CommentStart(line) - 1)

\* the line filter of the legacy parse_article keeps the unstripped line
RECURSIVE LegacyFilterLines(_)
LegacyFilterLines(lines) ==
    IF lines = <<>> THEN <<>>
    ELSE LET stripped == Strip(Head(lines))
         IN  (IF stripped = <<>> \/ MatchesDate(stripped) \/ MatchesTwoWords(stripped)
              THEN <<>> ELSE <<Head(lines)>>)
                \o LegacyFilterLines(Tail(lines))

\* re.match(r'^\*?\s*(\d+)\.\s+', stripped_remainder)
MatchesNumberedHead(text) ==
    MatchesNumberedSpace(
        LStrip(IF StartsWith(text, <<"*">>) THEN Tail(text) ELSE text))

\* the loop of parse_headword_remainder that strips the sentence ending:
\* [stripped, sentence_ending]
RECURSIVE StripSentenceEnding(_, _)
StripSentenceEnding(stripped, sentence_ending) ==
    IF /\ stripped # <<>>
       /\ stripped[Len(stripped)] \in {".", "?", "!"}
       /\ Len(stripped) = 1 \/ stripped[Len(stripped) - 1] # "\\"
    THEN StripSentenceEnding(RStrip(SubSeq(stripped, 1, Len(stripped) - 1)),
                             <<stripped[Len(stripped)]>> \o sentence_ending)
    ELSE [stripped |-> stripped, sentence_ending |-> sentence_ending]

\* text without markup: parse_rich_text returns it as one regular segment
\* and the segment loop of parse_headword_remainder takes its last branch
IsPlainText(text) ==
    /\ \A k \in DOMAIN text :
            IsLetter(text[k]) \/ IsDigit(text[k])
            \/ text[k] \in {"$", " ", ".", "?", "!", "{", "}"}
    /\ \E k \in DOMAIN text : text[k] \notin {" ", "."}

SentenceDivider(text) == [Block("sentence_divider") EXCEPT !.text = text]

\* parse_headword_remainder(text, is_morpheme=False)
\* int(numbered_match.group(1)) for a one-digit group
DigitValue(c) ==
    CHOOSE n \in 0..9 :
        c = <<"0", "1", "2", "3", "4", "5", "6", "7", "8", "9">>[n + 1]

\* the first node of remainder_nodes takes the number
WithNumber(remainder_nodes, number) ==
    IF remainder_nodes = <<>> THEN <<>>
    ELSE [remainder_nodes EXCEPT ![1].number = number]

\* re.findall(r'<([^>]+)>', text): the link targets of a text
RECURSIVE LinkTargets(_)
LinkTargets(text) ==
    IF text = <<>> THEN <<>>
    ELSE LET close == Find(text, ">", 2)
         IN  IF Head(text) = "<" /\ close > 2
             THEN <<SubSeq(text, 2, close - 1)>>
                    \o LinkTargets(SubSeq(text, close + 1, Len(text)))
             ELSE LinkTargets(Tail(text))

\* re.sub(r'<[^>]+>', '', text)
RECURSIVE RemoveLinks(_)
RemoveLinks(text) ==
    IF text = <<>> THEN <<>>
    ELSE LET close == Find(text, ">", 2)
         IN  IF Head(text) = "<" /\ close > 2
             THEN RemoveLinks(SubSeq(text, close + 1, Len(text)))
             ELSE <<Head(text)>> \o RemoveLinks(Tail(text))

\* re.search(r'\(\s*=\s*([^)]*)\)', text): the text holds a synonym group
HasSynonymGroup(text) ==
    \E i \in DOMAIN text :
        /\ text[i] = "("
        /\ StartsWith(LStrip(SubSeq(text, i + 1, Len(text))), <<"=">>)
        /\ Find(text, ")", i + 1) # 0

\* s.lstrip(c)
RECURSIVE LStripChar(_, _)
LStripChar(s, c) ==
    IF s # <<>> /\ Head(s) = c THEN LStripChar(Tail(s), c) ELSE s

\* s.rstrip(c)
RECURSIVE RStripChar(_, _)
RStripChar(s, c) ==
    IF s # <<>> /\ s[Len(s)] = c
    THEN RStripChar(SubSeq(s, 1, Len(s) - 1), c) ELSE s

\* the state of the segment loop of parse_headword_remainder: the nodes so
\* far, the positions of current_translation and current_explanation in
\* them (0 for None), the reference being collected (mode "" and label <<>>
\* for None), and whether the loop left the branches covered here
RemainderStart ==
    [out |-> <<>>, tr |-> 0, ex |-> 0, targets |-> <<>>, mode |-> "",
     label |-> <<>>, covered |-> TRUE]

ensure_translation(st) ==
    IF st.tr # 0 THEN st
    ELSE [st EXCEPT !.out = Append(@, Block("translation")),
                    !.tr = Len(st.out) + 1]

ensure_explanation(st) ==
    IF st.ex # 0 THEN st
    ELSE [st EXCEPT !.out = Append(@, Block("explanation")),
                    !.ex = Len(st.out) + 1]

\* the position k after the node at position gone has left the list
ShiftedPosition(k, gone) == IF k > gone THEN k - 1 ELSE k

close_translation(st) ==
    IF st.tr # 0 /\ st.out[st.tr].content = <<>>
    THEN [st EXCEPT !.out = WithoutSegment(@, st.tr), !.tr = 0,
                    !.ex = ShiftedPosition(@, st.tr)]
    ELSE [st EXCEPT !.tr = 0]

close_explanation(st) ==
    IF st.ex # 0 /\ st.out[st.ex].content = <<>>
    THEN [st EXCEPT !.out = WithoutSegment(@, st.ex), !.ex = 0,
                    !.tr = ShiftedPosition(@, st.ex)]
    ELSE [st EXCEPT !.ex = 0]

flush_reference(st) ==
    IF st.targets = <<>> THEN st
    ELSE [st EXCEPT
            !.out = Append(@, [Block("reference") EXCEPT
                                  !.mode = IF st.mode = "" THEN "link" ELSE st.mode,
                                  !.targets = st.targets,
                                  !.text = st.label]),
            !.targets = <<>>, !.mode = "", !.label = <<>>]

\* content.append(item) on the node at position k
AppendContent(st, k, item) == [st EXCEPT !.out[k].content = Append(@, item)]

\* translation['content'].append(item) on the current translation
AppendToTranslation(st, item) ==
    AppendContent(ensure_translation(st),
                  IF st.tr # 0 THEN st.tr ELSE Len(st.out) + 1, item)

AppendToExplanation(st, item) ==
    AppendContent(ensure_explanation(st),
                  IF st.ex # 0 THEN st.ex ELSE Len(st.out) + 1, item)

\* the item a character of a punctuation-only text becomes
PunctuationItem(ch) ==
    IF ch \in {",", ".", ";", ":"}
    THEN [Item("divider", "", <<ch>>) EXCEPT !.kind = categorize_divider(<<ch>>)]
    ELSE TextItem("regular", <<ch>>)

RECURSIVE AppendPunctuation(_, _)
AppendPunctuation(st, chars) ==
    IF chars = <<>> THEN st
    ELSE AppendPunctuation(AppendToTranslation(st, PunctuationItem(Head(chars))),
                           Tail(chars))

\* the note node of an italic run wrapped in parentheses
NoteNode(stripped) ==
    [Block("note") EXCEPT !.content = <<TextItem("italic", stripped)>>]

\* an italic run that opens a reference: the reference and the open nodes
\* are closed, the mode and its label are kept for the targets to come
OpenReference(st, mode, stripped) ==
    [st EXCEPT !.mode = mode, !.label = stripped]

\* the italic branch of the loop; the see and compare labels stand as "sm."
\* and "sr."; a short italic run without bracket is a label, which goes
\* through register_label and is left to the label machine
ItalicStripped(st, stripped, candidate) ==
    IF StartsWith(stripped, <<"(">>) /\ EndsWith(stripped, <<")">>)
    THEN [close_explanation(close_translation(st)) EXCEPT
            !.out = Append(@, NoteNode(stripped))]
    ELSE IF stripped \in {<<"s", "m", ".">>, <<"s", "m">>, <<"s", "r", ".">>, <<"s", "r">>}
    THEN OpenReference(close_explanation(close_translation(flush_reference(st))),
                       IF stripped[2] = "m" THEN "see" ELSE "compare", stripped)
    ELSE IF candidate # <<>> /\ Len(candidate) <= 6 /\ ~Contains(candidate, " ")
    THEN IF \E k \in DOMAIN stripped :
                stripped[k] \in {"(", ")", "[", "]", "{", "}"}
         THEN AppendToTranslation(st, TextItem("italic", stripped))
         ELSE [st EXCEPT !.covered = FALSE]
    ELSE AppendToExplanation(st, TextItem("italic", stripped))

ItalicSegmentStep(st, text_val) ==
    ItalicStripped(st, Strip(text_val), RStripChar(Strip(text_val), "."))

\* the end of the regular branch: the text without its closing semicolon is
\* the target of an open see or compare reference, or regular text of the
\* translation
RegularClean(st, text_clean) ==
    IF text_clean = <<>> THEN flush_reference(st)
    ELSE IF st.mode \in {"see", "compare"}
    THEN flush_reference([st EXCEPT !.targets = Append(@, text_clean)])
    ELSE AppendToTranslation(st, TextItem("regular", text_clean))

\* text_clean[:-1].rstrip() when the text ends with a semicolon
WithoutClosingSemicolon(text) ==
    IF EndsWith(text, <<";">>) THEN RStrip(SubSeq(text, 1, Len(text) - 1))
    ELSE text

\* the regular branch from the test for a leading "=" on
RegularTail(st, text0) ==
    IF StartsWith(text0, <<"=">>)
    THEN RegularClean([st EXCEPT !.mode = "synonym", !.label = <<"=">>],
                      WithoutClosingSemicolon(LStrip(Tail(text0))))
    ELSE RegularClean(st, WithoutClosingSemicolon(text0))

\* text_clean.lstrip(',').strip() when the text opens with a comma and no
\* translation holds content yet
WithoutLeadingComma(st, text_clean) ==
    IF StartsWith(text_clean, <<",">>)
       /\ (st.tr = 0 \/ st.out[st.tr].content = <<>>)
    THEN Strip(LStripChar(text_clean, ","))
    ELSE text_clean

\* the stripped, non-empty targets of the links of a text
StrippedTargets(targets) ==
    SelectSeq([k \in DOMAIN targets |-> Strip(targets[k])], LAMBDA t : t # <<>>)

\* the regular branch once the links have left the text: a text of
\* punctuation and parentheses only goes item by item into the translation
RegularUnlinked(st, unlinked, punctuation_only) ==
    IF /\ punctuation_only # <<>>
       /\ \A k \in DOMAIN punctuation_only :
                punctuation_only[k] \in {",", ".", ";", ":", "(", ")"}
    THEN AppendPunctuation(st, punctuation_only)
    ELSE RegularTail(st, unlinked)

\* the regular branch on the stripped text; a text that opens an
\* illustration with a colon or holds a synonym group "(= ...)" is outside
\* the branches covered
RegularStripped(st, text_clean) ==
    IF text_clean = <<>> THEN st
    ELSE IF (StartsWith(text_clean, <<":">>) /\ st.tr = 0)
            \/ HasSynonymGroup(text_clean)
    THEN [st EXCEPT !.covered = FALSE]
    ELSE RegularUnlinked(
            [st EXCEPT !.targets = @ \o StrippedTargets(LinkTargets(text_clean)),
                       !.mode = IF @ = "" THEN "link" ELSE @],
            Strip(RemoveLinks(text_clean)),
            Remove(Strip(RemoveLinks(text_clean)), " "))

RegularFlushed(st, stripped) ==
    RegularStripped(st, WithoutLeadingComma(st, stripped))

RegularSegmentStep(st, text_val) ==
    RegularFlushed(close_explanation(flush_reference(st)), Strip(text_val))

RECURSIVE SegmentLoop(_, _)
SegmentLoop(st, segments) ==
    IF segments = <<>> THEN st
    ELSE SegmentLoop(
            IF Head(segments).style = "italic"
            THEN ItalicSegmentStep(st, Head(segments).text)
            ELSE RegularSegmentStep(st, Head(segments).text),
            Tail(segments))

\* any(text item whose text is more than a divider, or a label)
IsMeaningful(block) ==
    \E k \in DOMAIN block.content :
        \/ /\ block.content[k].type = "text"
           /\ Strip(block.content[k].text) \notin {<<",">>, <<";">>, <<":">>, <<>>}
        \/ block.content[k].type = "label"

\* an explanation of one italic item with a semicolon is split further
IsSplitExplanation(block) ==
    /\ block.type = "explanation"
    /\ Len(block.content) = 1
    /\ block.content[1].style = "italic"
    /\ Contains(block.content[1].text, ";")

\* the nodes left when the loop is over: translations without meaningful
\* content leave
KeptNodes(closed) ==
    IF ~closed.covered
       \/ \E k \in DOMAIN closed.out : IsSplitExplanation(closed.out[k])
    THEN <<UnmodelledBlock>>
    ELSE SelectSeq(closed.out,
                   LAMBDA b : b.type # "translation" \/ IsMeaningful(b))

\* the nodes parse_headword_remainder builds from a text with markup: the
\* segments of the three steps go through the loop, then the reference and
\* the open nodes are closed
RichNodes(stripped) ==
    KeptNodes(
        close_explanation(close_translation(flush_reference(
            SegmentLoop(RemainderStart,
                absorb_parentheses_into_italic(
                    merge_punctuation_with_italic(
                        legacy_parse_rich_text_preserve(stripped, FALSE))))))))

\* the translation parse_headword_remainder builds from plain text, then the
\* sentence divider
PlainNodes(ending) ==
    LET closing == IF ending.sentence_ending = <<>> THEN <<>>
                   ELSE <<SentenceDivider(ending.sentence_ending)>>
    IN  IF ending.stripped = <<>> THEN closing
        ELSE IF ~IsPlainText(ending.stripped)
        THEN RichNodes(ending.stripped) \o closing
        ELSE <<[Block("translation") EXCEPT
                    !.content = <<TextItem("regular", ending.stripped)>>]>>
             \o closing

\* parse_headword_remainder(text, is_morpheme=False)
RECURSIVE parse_headword_remainder(_)
parse_headword_remainder(text) ==
    IF MatchesNumberedSense(Strip(text))
    THEN IF LeadingDigits(Strip(text)) > 1 THEN <<UnmodelledBlock>>
         ELSE WithNumber(
                parse_headword_remainder(
                    LStrip(SubSeq(Strip(text), 3, Len(Strip(text))))),
                DigitValue(Strip(text)[1]))
    ELSE PlainNodes(StripSentenceEnding(Strip(text), <<>>))

\* parse_article(article_text) of the legacy parser
legacy_parse_article(lines) ==
    LET filtered == LegacyFilterLines(
                        [k \in DOMAIN lines |-> preprocess_text(lines[k])])
        head == parse_headword(Head(filtered))
    IN  IF \E k \in DOMAIN lines : IsRewritten(lines[k]) THEN UnmodelledArticle
        ELSE IF filtered = <<>> THEN EmptyArticle
        ELSE IF head.raw_form # <<>> \/ Len(filtered) > 1 THEN UnmodelledArticle
        ELSE IF MatchesNumberedHead(Strip(head.remaining)) THEN UnmodelledArticle
        ELSE [headword |-> None,
              body |-> parse_headword_remainder(head.remaining)]

\* template.parse(context): every template but letter_entry runs the legacy
\* parser on the raw text and normalizes the result
TemplateParse(name, lines) ==
    IF name = "letter_entry" THEN UnmodelledArticle
    ELSE normalize_article(legacy_parse_article(lines))

\* filtered_lines of ParsingPipeline.parse_article
RelevantLines(lines) == filter_relevant_lines(tp_preprocess_text(lines))

\* self.registry.select(context); "" when parse_article returns before it
SelectedTemplate(lines) ==
    IF RelevantLines(lines) = <<>> THEN ""
    ELSE select(ArticleContext(tp_preprocess_text(lines)))

\* lines of the chunks without head line: blank lines, a dated line, a
\* two-word line, metadata lines, sentence marks, a commented line, plain and
\* numbered text
PipeLineSet ==
    { <<>>,
      <<" ", " ">>,
      HeaderLine,
      <<"a", " ", "b">>,
      <<"$", "m">>,
      <<" ", "$", " ", "m", ".">>,
      <<"?", "!">>,
      <<"!", "!", "!", "m">>,
      <<"m", "!", "!", "!", "a">>,
      <<"1", ".", "m">> }

IsRelevantLine(line) == filter_relevant_lines(<<line>>) # <<>>

\* chunks of at most MaxChunk lines with at most one relevant line
PipeChunks ==
    { c \in UNION {[1..n -> PipeLineSet] : n \in 1..MaxChunk} :
        Cardinality({k \in DOMAIN c : IsRelevantLine(c[k])}) <= 1 }

InitPipe ==
    /\ chunk \in PipeChunks
    /\ pc = "start"
    /\ selected = ""
    /\ article = NoArticle
    /\ IdleTree /\ IdleLabel /\ IdleStruct /\ IdleNorm /\ IdleTok /\ IdleExtra

\* ParsingPipeline.parse_article(article_text)
ParseArticle ==
    /\ pc = "start"
    /\ selected' = SelectedTemplate(chunk)
    /\ article' = IF RelevantLines(chunk) = <<>> THEN EmptyArticle
                  ELSE TemplateParse(selected', chunk)
    /\ pc' = "done"
    /\ UNCHANGED chunk
    /\ UNCHANGED <<treeVars, labelVars, structVars, normVars, tokVars, extraVars>>

NextPipe == ParseArticle

SpecPipe == InitPipe /\ [][NextPipe]_vars

\* no run leaves the part of parse_article the operators cover
PipeDomainCovered == pc = "done" => ~HasUnmodelled(article.body)

\* the first relevant line of the chunk is no bracketed head line
NoBracketedHead(lines) ==
    RelevantLines(lines) = <<>>
    \/ ~StartsWith(Head(RelevantLines(lines)), <<"[">>)

\* C4: for a chunk whose first relevant line is no bracketed head line,
\* parse_article returns headword None and an empty body.
C4_NoHeadGivesEmpty ==
    (pc = "done" /\ NoBracketedHead(chunk)) => article = EmptyArticle


----------------------------------------------------------------------------
(* Tilde expansion (normalization.py)                                      *)

\* _unique_preserve_order
RECURSIVE UniqueLoop(_, _)
UniqueLoop(items, result) ==
    IF items = <<>> THEN result
    ELSE IF \E k \in DOMAIN result : result[k] = Head(items)
         THEN UniqueLoop(Tail(items), result)
         ELSE UniqueLoop(Tail(items), Append(result, Head(items)))

unique_preserve_order(items) == UniqueLoop(items, <<>>)

\* ''.join(parts)
RECURSIVE JoinAll(_)
JoinAll(parts) ==
    IF parts = <<>> THEN <<>> ELSE Head(parts) \o JoinAll(Tail(parts))

\* s.replace(c, by) for a one-character c
ReplaceChar(s, c, by) ==
    JoinAll([k \in DOMAIN s |-> IF s[k] = c THEN by ELSE <<s[k]>>])

\* the inner loops of _expand_pattern at '(': every current result, each
\* followed by itself extended with every addition
WithAdditions(results, inner) ==
    JoinAll([k \in DOMAIN results |->
                <<results[k]>> \o [n \in DOMAIN inner |-> results[k] \o inner[n]]])

\* recurse(index) of _expand_pattern, with the results so far; positions are
\* 1-based; returns [results, next]
RECURSIVE Recurse(_, _, _)
Recurse(cleaned, i, results) ==
    IF i > Len(cleaned) THEN [results |-> results, next |-> i]
    ELSE IF cleaned[i] = "("
         THEN LET inner == Recurse(cleaned, i + 1, << <<>> >>)
              IN  Recurse(cleaned, inner.next, WithAdditions(results, inner.results))
    ELSE IF cleaned[i] = ")" THEN [results |-> results, next |-> i + 1]
    ELSE Recurse(cleaned, i + 1,
                 [k \in DOMAIN results |-> Append(results[k], cleaned[i])])

expand_pattern(pattern) ==
    unique_preserve_order(
        SelectSeq(Recurse(pattern, 1, << <<>> >>).results, LAMBDA item : item # <<>>))

\* the parent bases a headword is expanded against: [""] when it has none
BasesOrEmpty(parent_bases) ==
    IF parent_bases = <<>> THEN << <<>> >> ELSE parent_bases

\* the two loops of _generate_lemmas_from_raw and _extract_base_variants: every
\* item with '~' replaced by every base, in base-major order; an item with a
\* tilde is skipped for an empty base when skip_tilde is set, and an empty
\* result is dropped
ReplaceByBases(items, bases, skip_tilde) ==
    JoinAll([b \in DOMAIN bases |->
        JoinAll([n \in DOMAIN items |->
            IF skip_tilde /\ Contains(items[n], "~") /\ bases[b] = <<>> THEN <<>>
            ELSE IF ReplaceChar(items[n], "~", bases[b]) = <<>> THEN <<>>
            ELSE <<ReplaceChar(items[n], "~", bases[b])>>])])

generate_lemmas_from_raw(raw, parent_bases) ==
    unique_preserve_order(
        ReplaceByBases(expand_pattern(Remove(Remove(raw, "|"), "/")),
                       BasesOrEmpty(parent_bases), TRUE))

extract_base_variants(raw, parent_bases, lemma_expansions) ==
    LET raw_no_slash == Remove(raw, "/")
    IN  IF Contains(raw_no_slash, "|")
        THEN unique_preserve_order(
                ReplaceByBases(expand_pattern(CutAtBar(raw_no_slash)),
                               BasesOrEmpty(parent_bases), FALSE))
        ELSE IF Contains(raw_no_slash, "~") /\ parent_bases # <<>>
        THEN unique_preserve_order(parent_bases)
        ELSE lemma_expansions

\* the entries one lemma entry of the headword expands to
ExpandedEntries(entry, parent_bases) ==
    LET expansions == generate_lemmas_from_raw(entry.raw, parent_bases)
    IN  IF expansions # <<>>
        THEN [k \in DOMAIN expansions |-> [raw |-> entry.raw, lemma |-> expansions[k]]]
        ELSE <<entry>>

\* _dedupe_lemma_entries: the key is (raw, lemma), the whole entry
dedupe_lemma_entries(entries) == UniqueLoop(entries, <<>>)

LemmaValues(entries) ==
    LET filled == SelectSeq(entries, LAMBDA entry : entry.lemma # <<>>)
    IN  [k \in DOMAIN filled |-> filled[k].lemma]

\* node["lemmas"] as _expand_headword_node leaves it
ExpandedLemmas(lemmas, parent_bases) ==
    dedupe_lemma_entries(
        JoinAll([k \in DOMAIN lemmas |-> ExpandedEntries(lemmas[k], parent_bases)]))

\* _expand_headword_node: the _tilde_context it leaves on the headword
expand_headword_node(lemmas, parent_bases) ==
    LET expanded_entries == ExpandedLemmas(lemmas, parent_bases)
        base_variants ==
            unique_preserve_order(
                JoinAll([k \in DOMAIN lemmas |->
                    extract_base_variants(lemmas[k].raw, parent_bases,
                        generate_lemmas_from_raw(lemmas[k].raw, parent_bases))]))
        lemma_values == unique_preserve_order(LemmaValues(expanded_entries))
    IN  [lemmas |-> lemma_values,
         bases |-> IF base_variants # <<>> THEN base_variants ELSE lemma_values]

\* the replacement that ignores the following character
TildeReplacementLemma(text, i, lemma, base) == lemma

\* the replacement _replace_tilde_with_strategy picks for the tilde at i
TildeReplacement(text, i, lemma, base) ==
    IF i < Len(text) /\ (IsLetter(text[i + 1]) \/ text[i + 1] = "'")
    THEN base ELSE lemma

RECURSIVE ReplaceTildeLoop(_, _, _, _, _)
ReplaceTildeLoop(text, i, lemma, base, builder) ==
    IF i > Len(text) THEN builder
    ELSE IF text[i] = "~"
         THEN ReplaceTildeLoop(text, i + 1, lemma, base,
                               builder \o TildeReplacement(text, i, lemma, base))
         ELSE ReplaceTildeLoop(text, i + 1, lemma, base, Append(builder, text[i]))

replace_tilde_with_strategy(text, lemma, base) ==
    ReplaceTildeLoop(text, 1, lemma, base, <<>>)

\* lemma and base of the idx-th pass of _expand_tilde_text (1-based)
LemmaAt(lemmas, n) ==
    IF n <= Len(lemmas) THEN lemmas[n]
    ELSE IF lemmas # <<>> THEN lemmas[Len(lemmas)] ELSE <<>>

BaseAt(lemmas, bases, n) ==
    IF n <= Len(bases) THEN bases[n]
    ELSE IF bases # <<>> THEN bases[Len(bases)] ELSE LemmaAt(lemmas, n)

OrElse(a, b) == IF a # <<>> THEN a ELSE b

MaxOf(a, b) == IF a >= b THEN a ELSE b

expand_tilde_text(text, lemmas, bases) ==
    LET max_len == MaxOf(MaxOf(Len(lemmas), Len(bases)), 1)
        results ==
            JoinAll([n \in 1..max_len |->
                IF LemmaAt(lemmas, n) = <<>> /\ BaseAt(lemmas, bases, n) = <<>>
                THEN <<>>
                ELSE <<replace_tilde_with_strategy(text,
                          OrElse(LemmaAt(lemmas, n), BaseAt(lemmas, bases, n)),
                          OrElse(BaseAt(lemmas, bases, n), LemmaAt(lemmas, n)))>>])
    IN  unique_preserve_order(results)

\* the eo_expanded _expand_tilde_in_blocks leaves on an illustration that has
\* the eo text eo_text and no continuation, under the given context; the
\* empty sequence when the block is left alone
ExpandIllustration(eo_text, context) ==
    IF eo_text # <<>> /\ Contains(eo_text, "~")
       /\ (context.lemmas # <<>> \/ context.bases # <<>>)
    THEN expand_tilde_text(eo_text, unique_preserve_order(context.lemmas),
                           unique_preserve_order(context.bases))
    ELSE <<>>

\* the bracket contents of the headwords expanded
HeadContents ==
    { <<"a", "b", "|", "o">>,
      <<"a", "b", "|", "o", "(", "j", ")">>,
      <<"a", "(", "b", ")", "|", "o">>,
      <<"A", ",", "a">>,
      <<"a", "b", "|", "o", ",", "a", "b", "|", "a">>,
      <<"a", "b", "|", "o", ",", "a", "c", "|", "o">>,
      <<"a", "|", "o", ",", "b", "|", "o", ",", "c", "|", "o">>,
      <<"a", "b", "o", ",", "a", "b", "/", "o">> }

\* eo texts of at most MaxEo characters
MaxEo == 3
EoAlphabet == {"~", "i", " ", "'"}
EoTexts == UNION { [1..n -> EoAlphabet] : n \in 1..MaxEo }

\* the headword as parse_headword leaves it, and an illustration under it
InitTilde ==
    /\ \E content \in HeadContents : hraw = LemmasOf(Split(content, ","), <<>>)
    /\ eo \in EoTexts
    /\ eo_expanded = <<>>
    /\ xpc = "start"
    /\ IdleTree /\ IdlePipe /\ IdleLabel /\ IdleStruct /\ IdleNorm /\ IdleTok
    /\ IdleImport /\ IdleLate

\* the tilde steps of normalize_article: _expand_headword_node on the article's
\* headword, then _expand_tilde_in_blocks on the illustration under it
ExpandTilde ==
    /\ xpc = "start"
    /\ eo_expanded' = ExpandIllustration(eo, expand_headword_node(hraw, <<>>))
    /\ xpc' = "done"
    /\ UNCHANGED <<hraw, eo>>
    /\ UNCHANGED <<treeVars, pipeVars, labelVars, structVars, normVars, tokVars, importVars,
                   lateVars>>

NextTilde == ExpandTilde

SpecTilde == InitTilde /\ [][NextTilde]_vars

\* the context of the headword of the current state
TildeContext == expand_headword_node(hraw, <<>>)

\* the claim's case: the call is over, the eo text holds a tilde and the
\* headword has two lemma variants
TwoVariantCase ==
    /\ xpc = "done"
    /\ Contains(eo, "~")
    /\ Len(TildeContext.lemmas) = 2

\* eo with every tilde replaced on its own: by the base when the next
\* character satisfies follows_base, by the lemma otherwise
Substituted(text, lemma, base, follows_base(_)) ==
    JoinAll([i \in DOMAIN text |->
        IF text[i] # "~" THEN <<text[i]>>
        ELSE IF i < Len(text) /\ follows_base(text[i + 1]) THEN base
        ELSE lemma])

LetterOrApostrophe(c) == IsLetter(c) \/ c = "'"

\* the string the n-th lemma variant gives
VariantString(n, follows_base(_)) ==
    Substituted(eo, TildeContext.lemmas[n],
                BaseAt(TildeContext.lemmas, TildeContext.bases, n), follows_base)

----------------------------------------------------------------------------
(* parse_article on a chunk whose head line holds a bracketed headword     *)

\* the numbered branch of classify_node and what process_final_tree appends
\* for the one node of a numbered head remainder: the first parsed node takes
\* the explanations, notes and illustrations that follow it as children and
\* the sentence divider as its sentence_ending, which append_processed
\* appends after it; the other nodes are its extra_nodes, appended last.
\* A first node that is itself a note, explanation or illustration takes
\* the note-block paths of process_final_tree, which are not covered here.
ClassifyParsed(text, parsed_nodes, extras) ==
    IF parsed_nodes = <<>>
    THEN IF LeadingDigits(text) > 1 THEN <<UnmodelledBlock>>
         ELSE <<[Block("translation") EXCEPT !.number = DigitValue(text[1])]>>
    ELSE IF \/ parsed_nodes[1].type \in {"explanation", "note", "illustration",
                                         "unmodelled"}
            \/ \E k \in DOMAIN extras : extras[k].type = "unmodelled"
    THEN <<UnmodelledBlock>>
    ELSE <<[parsed_nodes[1] EXCEPT !.children =
                SelectSeq(extras, LAMBDA e :
                    e.type \in {"explanation", "note", "illustration"})]>>
         \o (IF \E k \in DOMAIN extras : extras[k].type = "sentence_divider"
             THEN <<SentenceDivider(extras[Len(extras)].text)>>
             ELSE <<>>)
         \o SelectSeq(extras, LAMBDA e :
                e.type \notin {"explanation", "note", "illustration",
                               "sentence_divider"})

ClassifyNodes(text, parsed_nodes) ==
    ClassifyParsed(text, parsed_nodes, SubSeq(parsed_nodes, 2, Len(parsed_nodes)))

ClassifyNumbered(text) == ClassifyNodes(text, parse_headword_remainder(text))

\* final_body of parse_article for a one-line article with a headword: a
\* numbered remainder goes through build_raw_tree and classify_node as the
\* only body line, any other remainder through parse_headword_remainder
HeadBody(head) ==
    IF head.remaining = <<>> THEN <<>>
    ELSE IF IsMorphemeHeadword(head.lemmas) THEN <<UnmodelledBlock>>
    ELSE IF MatchesNumberedHead(Strip(head.remaining))
    THEN IF MatchesNumberedSense(Strip(head.remaining))
         THEN ClassifyNumbered(Strip(head.remaining))
         ELSE <<UnmodelledBlock>>
    ELSE parse_headword_remainder(head.remaining)

\* parse_article(article_text) of the legacy parser, for a text whose first
\* line holds a headword
legacy_parse_head_article(lines) ==
    LET filtered == LegacyFilterLines(
                        [k \in DOMAIN lines |-> preprocess_text(lines[k])])
        head == parse_headword(Head(filtered))
    IN  IF \/ \E k \in DOMAIN lines : IsRewritten(lines[k])
           \/ Len(filtered) # 1
           \/ head.raw_form = <<>>
        THEN [headword |-> [raw_form |-> <<>>, lemmas |-> <<>>,
                            official_mark |-> None, homonym |-> None],
              body |-> <<UnmodelledBlock>>]
        ELSE [headword |-> [raw_form |-> head.raw_form, lemmas |-> head.lemmas,
                            official_mark |-> head.official_mark,
                            homonym |-> head.homonym],
              body |-> HeadBody(head)]

\* _expand_tilde_in_blocks under the context of the article's headword; the
\* blocks it would rewrite are illustrations and nested headwords
RECURSIVE expand_tilde_under_headword(_)
expand_tilde_under_headword(blocks) ==
    [k \in DOMAIN blocks |->
        IF blocks[k].type \in {"headword", "illustration"} THEN UnmodelledBlock
        ELSE [blocks[k] EXCEPT !.children = expand_tilde_under_headword(@)]]

\* normalize_article(article) for an article with a headword
normalize_headed_article(art) ==
    LET transformed_body ==
            [k \in DOMAIN art.body |-> transform_block(art.body[k])]
        attached == attach_orphan_references(transformed_body)
        merged == merge_plain_russian_illustrations(attached)
    IN  [headword |-> [art.headword EXCEPT !.lemmas = ExpandedLemmas(@, <<>>)],
         body |-> expand_tilde_under_headword(merged)]

\* template.parse(context) for a chunk with a headword
HeadTemplateParse(name, lines) ==
    IF name = "letter_entry"
    THEN [headword |-> [raw_form |-> <<>>, lemmas |-> <<>>,
                        official_mark |-> None, homonym |-> None],
          body |-> <<UnmodelledBlock>>]
    ELSE normalize_headed_article(legacy_parse_head_article(lines))

\* the parts head lines are put together from: the bracketed headword, the
\* official mark, the sense number, the part of speech and the text
HeadBrackets ==
    { <<"[", "a", "|", "o", "]">>,
      <<"[", "a", "b", "|", "i", "]">>,
      <<"[", "a", "b", "]">> }
HeadMarks == { <<>>, <<" ", "*">>, <<" ", "*", "2">> }
HeadNumbers == { <<>>, <<" ", "1", ".">>, <<" ", "2", ".">> }
HeadPos == { <<>>, <<" ", "{", "v", "}">> }
HeadTexts == { <<" ", "a">>, <<" ", "b", " ", "a", ".">> }

HeadLines ==
    { b \o m \o n \o p \o t :
        b \in HeadBrackets, m \in HeadMarks, n \in HeadNumbers,
        p \in HeadPos, t \in HeadTexts }

\* chunks of one head line
InitHead ==
    /\ \E line \in HeadLines : chunk = <<line>>
    /\ pc = "start"
    /\ selected = ""
    /\ article = NoArticle
    /\ IdleTree /\ IdleLabel /\ IdleStruct /\ IdleNorm /\ IdleTok /\ IdleExtra

\* ParsingPipeline.parse_article(article_text) on a head line
ParseHeadArticle ==
    /\ pc = "start"
    /\ selected' = SelectedTemplate(chunk)
    /\ article' = HeadTemplateParse(selected', chunk)
    /\ pc' = "done"
    /\ UNCHANGED chunk
    /\ UNCHANGED <<treeVars, labelVars, structVars, normVars, tokVars, extraVars>>

NextHead == ParseHeadArticle

SpecHead == InitHead /\ [][NextHead]_vars

\* no run leaves the part of parse_article the operators cover
HeadDomainCovered == pc = "done" => ~HasUnmodelled(article.body)


\* the head lines of the form [root|ending] * N. {pos} text
ClaimedHeadLines ==
    { b \o m \o n \o <<" ", "{", "v", "}">> \o t :
        b \in {h \in HeadBrackets : Contains(h, "|")},
        m \in HeadMarks \ {<<>>}, n \in HeadNumbers \ {<<>>}, t \in HeadTexts }

\* the text between the brackets of the head line, and its sense number
BracketContent(line) == SubSeq(line, 2, Find(line, "]", 1) - 1)
SenseNumber(line) == DigitValue(line[Find(line, ".", 1) - 1])

\* a PartOfSpeech label {v} in a content list, with literal text after it
HoldsPartOfSpeech(content) ==
    \E k \in DOMAIN content :
        /\ content[k].type \in {"pos", "label"}
        /\ content[k].text \in {<<"v">>, <<"{", "v", "}">>}
        /\ \E n \in DOMAIN content :
                n > k /\ content[n].type = "text" /\ content[n].text # <<>>

\* C12: parsing a head line [root|ending] * N. {pos} text yields a Headword
\* whose one lemma has the bracket content as raw and root and ending joined
\* as lemma, with official_mark set, and a Translation numbered N whose
\* content holds the PartOfSpeech label followed by the literal text.
C12_HeadLineParsed ==
    (pc = "done" /\ chunk[1] \in ClaimedHeadLines) =>
        /\ article.headword.lemmas =
                <<[raw |-> BracketContent(chunk[1]),
                   lemma |-> Remove(BracketContent(chunk[1]), "|")]>>
        /\ article.headword.official_mark # None
        /\ article.body # <<>>
        /\ article.body[1].type = "translation"
        /\ article.body[1].number = SenseNumber(chunk[1])
        /\ HoldsPartOfSpeech(article.body[1].content)


----------------------------------------------------------------------------
(* The segments of preserve mode                                           *)

\* the characters text[from..to] are all unescaped underscores
AllToggles(text, from, to) == \A p \in from..to : TogglesItalic(text, p)

\* the texts are slices of the text from position pos on, in order: unescaped
\* underscores and nothing else lie before, between and after them, and at
\* least one lies between two slices
RECURSIVE SlicedAtUnderscores(_, _, _, _)
SlicedAtUnderscores(text, pos, texts, least) ==
    \E skip \in least..(Len(text) - pos + 1) :
        /\ AllToggles(text, pos, pos + skip - 1)
        /\ IF texts = <<>> THEN pos + skip = Len(text) + 1
           ELSE /\ pos + skip + Len(Head(texts)) - 1 <= Len(text)
                /\ SubSeq(text, pos + skip, pos + skip + Len(Head(texts)) - 1)
                        = Head(texts)
                /\ SlicedAtUnderscores(text, pos + skip + Len(Head(texts)),
                                       Tail(texts),
                                       IF Tail(texts) = <<>> THEN 0 ELSE 1)

\* segments of preserve mode: text segments, regular or italic, that slice
\* the text at unescaped underscores
OnlyStyledText(text, segs) ==
    /\ \A k \in DOMAIN segs :
            segs[k].type = "text" /\ segs[k].style \in {"regular", "italic"}
    /\ SlicedAtUnderscores(text, 1, [k \in DOMAIN segs |-> segs[k].text], 0)

\* C16: in preserve-punctuation mode parse_rich_text, of the text parser and
\* of the legacy parser, returns text segments only (no divider, link, note
\* or part of speech); every character of the input other than an unescaped
\* underscore, so every punctuation character, stays inside a text segment
\* in its original order, and a segment ends, and the style changes, only at
\* unescaped underscores
C16_PreserveKeepsPunctuation ==
    (tpc = "done" /\ tmode.preserve_punctuation /\ ttext # <<>>)
    => /\ OnlyStyledText(ttext, tsegs)
       /\ OnlyStyledText(ttext,
            legacy_parse_rich_text_preserve(ttext, tmode.italic_open))

\* the text begins with an underscore and ends with an escaped one: both
\* parsers take the two for the delimiters of one italic run
WrappedByEscaped(text) ==
    /\ Len(text) > 2
    /\ text[1] = "_"
    /\ text[Len(text)] = "_"
    /\ text[Len(text) - 1] = "\\"

\* every other text is sliced at unescaped underscores only
PreserveKeepsUnlessWrappedByEscaped ==
    (tpc = "done" /\ tmode.preserve_punctuation /\ ttext # <<>>
        /\ ~WrappedByEscaped(ttext))
    => /\ OnlyStyledText(ttext, tsegs)
       /\ OnlyStyledText(ttext,
            legacy_parse_rich_text_preserve(ttext, tmode.italic_open))

----------------------------------------------------------------------------
(* The dividers of normal mode around abbreviations                        *)

\* bound on the length of a text with abbreviations
MaxAbbr == 5

AbbrAlphabet == {"s", "m", "t", ".", " ", "a", ","}

AbbrTexts == UNION {[1..n -> AbbrAlphabet] : n \in 0..MaxAbbr}

\* texts without brackets, tokenized in normal mode
InitAbbr ==
    /\ ttext \in AbbrTexts
    /\ tmode \in [preserve_punctuation : {FALSE}, italic_open : BOOLEAN]
    /\ tsegs = <<>>
    /\ tpc = "start"
    /\ IdleTree /\ IdlePipe /\ IdleLabel /\ IdleStruct /\ IdleNorm /\ IdleExtra

NextAbbr == Tokenize

SpecAbbr == InitAbbr /\ [][NextAbbr]_vars

\* the character at position p is a divider segment of its own
IsDividerAt(p) ==
    \E k \in DOMAIN tsegs :
        /\ tsegs[k].type = "divider"
        /\ tsegs[k].start = p
        /\ tsegs[k].text = <<ttext[p]>>

\* the character at position p lies inside a text segment
IsGluedAt(p) ==
    \E k \in DOMAIN tsegs : tsegs[k].type = "text" /\ p \in Span(tsegs[k])

\* the period at position p is itself a period of one of the listed
\* abbreviations, or follows a single letter t, p or d that stands at the
\* start of the text or after a blank
OwnAbbreviationPeriod(text, p) ==
    \/ \E n \in DOMAIN ABBREVIATION_PATTERNS :
            \E k \in 1..p :
                /\ p <= k + Len(ABBREVIATION_PATTERNS[n].lit) - 1
                /\ k + Len(ABBREVIATION_PATTERNS[n].lit) - 1 <= Len(text)
                /\ Lower(SubSeq(text, k, k + Len(ABBREVIATION_PATTERNS[n].lit) - 1))
                        = ABBREVIATION_PATTERNS[n].lit
                /\ ABBREVIATION_PATTERNS[n].b => (k = 1 \/ ~IsWordChar(text[k - 1]))
    \/ /\ p >= 2
       /\ text[p - 1] \in {"t", "p", "d"}
       /\ (p = 2 \/ IsSpace(text[p - 2]))

\* C17: in normal mode each of the characters , ; : . ! ? outside brackets is
\* a divider segment of its own, except that a period stays glued to the
\* text if and only if it is itself the period of one of the listed
\* abbreviations or of a single letter t, p or d after a blank
C17_DividerUnlessOwnAbbreviation ==
    tpc = "done" =>
        \A p \in DOMAIN ttext :
            ttext[p] \in {",", ";", ":", ".", "!", "?"}
            => IF ttext[p] = "." /\ OwnAbbreviationPeriod(ttext, p)
               THEN IsGluedAt(p) /\ ~IsDividerAt(p)
               ELSE IsDividerAt(p)

\* the other dividers and the periods far from every abbreviation letter are
\* dividers of their own
DividerAwayFromAbbreviations ==
    tpc = "done" =>
        \A p \in DOMAIN ttext :
            (\/ ttext[p] = ","
             \/ ttext[p] = "." /\ ~is_abbreviation_context(ttext, p))
            => IsDividerAt(p)

----------------------------------------------------------------------------
(* Brackets without closing character                                      *)

\* bound on the length of a text with brackets
MaxOpen == 5

OpenAlphabet == {"<", ">", "(", ")", "{", "}", "a", "_"}

OpenTexts == UNION {[1..n -> OpenAlphabet] : n \in 1..MaxOpen}

\* texts with brackets, tokenized in either mode
InitOpen ==
    /\ ttext \in OpenTexts
    /\ tmode \in [preserve_punctuation : BOOLEAN, italic_open : BOOLEAN]
    /\ tsegs = <<>>
    /\ tpc = "start"
    /\ IdleTree /\ IdlePipe /\ IdleLabel /\ IdleStruct /\ IdleNorm /\ IdleExtra

NextOpen == Tokenize

SpecOpen == InitOpen /\ [][NextOpen]_vars

\* parse_rich_text(text, preserve_punctuation, italic_open) of the legacy
\* parser
legacy_parse_rich_text(text, preserve_punctuation, italic_open) ==
    IF preserve_punctuation THEN legacy_parse_rich_text_preserve(text, italic_open)
    ELSE legacy_parse_rich_text_normal(text, italic_open)

\* the closing character of an opening one
Closer(c) == CASE c = "<" -> ">" [] c = "(" -> ")" [] c = "{" -> "}"

\* the segment type an opening character stands for
MarkType(c) == CASE c = "<" -> "link" [] c = "(" -> "note" [] c = "{" -> "pos"

\* the positions of the opening characters of a text with, and without, a
\* closing character after them
Terminated(text, c) ==
    {p \in DOMAIN text : text[p] = c /\ Find(text, Closer(c), p + 1) # 0}

Unterminated(text) ==
    {p \in DOMAIN text :
        text[p] \in {"<", "(", "{"} /\ Find(text, Closer(text[p]), p + 1) = 0}

\* the text a segment was made from, without the underscores
SegmentSource(seg) ==
    CASE seg.type = "link" -> <<"<">> \o seg.text \o <<">">>
      [] seg.type = "note" -> <<"(">> \o seg.text \o <<")">>
      [] seg.type = "pos" -> <<"{">> \o seg.text \o <<"}">>
      [] OTHER -> seg.text

\* no character other than an underscore is lost or added
KeepsCharacters(text, segs) ==
    Remove(JoinAll([k \in DOMAIN segs |-> SegmentSource(segs[k])]), "_")
        = Remove(text, "_")

\* there are no more links, notes and parts of speech than opening
\* characters with a closing one
NoMarkFromUnterminated(text, segs) ==
    \A c \in {"<", "(", "{"} :
        Cardinality({k \in DOMAIN segs : segs[k].type = MarkType(c)})
            <= Cardinality(Terminated(text, c))

\* the opening character at position p is literal text: it lies in the text
\* of a segment, which is a text segment or one opened before it
IsLiteralAt(p) == \E k \in DOMAIN tsegs : p \in Span(tsegs[k])

\* C18: for a text with an opening <, ( or { that no closing character
\* follows, parse_rich_text of the text parser and of the legacy parser, in
\* either mode, returns segments in which the opening character is literal
\* text, no link, note or part of speech comes from the unterminated
\* construct, and no character is lost
C18_UnterminatedIsLiteral ==
    (tpc = "done" /\ Unterminated(ttext) # {})
    => /\ KeepsCharacters(ttext, tsegs)
       /\ NoMarkFromUnterminated(ttext, tsegs)
       /\ \A p \in Unterminated(ttext) : IsLiteralAt(p)
       /\ KeepsCharacters(ttext,
            legacy_parse_rich_text(ttext, tmode.preserve_punctuation,
                                   tmode.italic_open))
       /\ NoMarkFromUnterminated(ttext,
            legacy_parse_rich_text(ttext, tmode.preserve_punctuation,
                                   tmode.italic_open))

\* a text with a parenthesis that is never closed before a link has been
\* tokenized in normal mode: the parenthesis is text, the link is a link
C18_Witness ==
    /\ tpc = "done"
    /\ ~tmode.preserve_punctuation
    /\ ttext = <<"(", "a", "<", "a", ">">>
    /\ Len(tsegs) = 2
    /\ tsegs[1].type = "text" /\ tsegs[1].text = <<"(", "a">>
    /\ tsegs[2].type = "link"

----------------------------------------------------------------------------
(* The note texts processed by the three steps                             *)

\* the texts processed: what precedes the parenthesis, the parenthesis with
\* its italic run, and what follows it
NotePrefixes == { <<>>, <<"a">>, <<"a", " ">> }
NoteForms ==
    { <<"(", "_", "n", "_", ")">>,
      <<"(", "_", "n", "_", " ", "=", " ", "<", "r", ">", ")">>,
      <<"(", "_", "n", "_", " ", "=", " ", "<", "r", ">", ",", " ", "<", "s", ">", ")">>,
      <<"(", "_", "n", "_", " ", "b", ")">>,
      <<"(", " ", "_", "n", "_", " ", ")">>,
      <<"(", "_", "n", "_", ",", ")">>,
      <<"(", "_", "n", "_">>,
      <<"_", "n", "_", ")">>,
      <<"_", "n", "_">>,
      <<"(", "n", ")">> }
NoteSuffixes ==
    { <<>>, <<".">>, <<";">>, <<" ", "b">>, <<"_", "b", "_">>, <<"(", "_", "b", "_", ")">> }

NoteTexts ==
    { a \o b \o c : a \in NotePrefixes, b \in NoteForms, c \in NoteSuffixes }

InitAbsorb ==
    /\ ttext \in NoteTexts
    /\ tmode = [preserve_punctuation |-> TRUE, italic_open |-> FALSE]
    /\ tsegs = <<>>
    /\ tpc = "start"
    /\ IdleTree /\ IdlePipe /\ IdleLabel /\ IdleStruct /\ IdleNorm /\ IdleExtra

\* parse_rich_text in preserve mode, then merge_punctuation_with_italic and
\* absorb_parentheses_into_italic, as every caller chains them
ProcessSegments ==
    /\ tpc = "start"
    /\ tsegs' = absorb_parentheses_into_italic(
                    merge_punctuation_with_italic(
                        legacy_parse_rich_text_preserve(ttext, tmode.italic_open)))
    /\ tpc' = "done"
    /\ UNCHANGED <<ttext, tmode>>
    /\ UNCHANGED <<treeVars, pipeVars, labelVars, structVars, normVars, extraVars>>

NextAbsorb == ProcessSegments

SpecAbsorb == InitAbsorb /\ [][NextAbsorb]_vars


\* the parentheses that hold an italic run followed by REST: non-italic text
\* and references up to the closing parenthesis
RestForms ==
    { <<"(", "_", "n", "_", " ", "=", " ", "<", "r", ">", ")">>,
      <<"(", "_", "n", "_", " ", "=", " ", "<", "r", ">", ",", " ", "<", "s", ">", ")">>,
      <<"(", "_", "n", "_", " ", "b", ")">> }

\* C14: for a text word (_note_ REST) the three steps yield exactly two
\* segments: the regular text before the parenthesis and one italic segment
\* that holds the parenthesis whole: "(note", then REST with its references,
\* then ")".
C14_NoteWithRestIsOneSegment ==
    \A a \in NotePrefixes \ {<<>>}, b \in RestForms :
        (tpc = "done" /\ ttext = a \o b) =>
            tsegs = <<LegacySegment("regular", a),
                      LegacySegment("italic", Remove(b, "_"))>>

\* the texts of all segments, joined
SegmentTexts == JoinAll([k \in DOMAIN tsegs |-> tsegs[k].text])

RunHoldsBothParentheses ==
    \E k \in DOMAIN tsegs :
        /\ tsegs[k].style = "italic"
        /\ \E i \in 1..(Len(tsegs[k].text) - 2) :
                SubSeq(tsegs[k].text, i, i + 2) = <<"(", "n", ")">>

\* the closing parenthesis went to the italic segment that follows the run's
ClosingInNextItalic ==
    \E k \in 1..(Len(tsegs) - 1) :
        /\ tsegs[k].style = "italic" /\ EndsWith(tsegs[k].text, <<"(", "n">>)
        /\ tsegs[k + 1].style = "italic" /\ StartsWith(tsegs[k + 1].text, <<")">>)

-----------------------------------------------------------------------------
(* parse_article on a numbered sense with a note in parentheses            *)

\* the parts the sense lines are put together from: the sense number, the
\* translated word, the italic run of the note, what follows the run inside
\* the parentheses, and the end of the line
SenseNumbers == { <<"1">>, <<"2">> }
SenseWords == { <<"w">>, <<"w", " ", "w">> }
SenseNotes == { <<"n">>, <<"n", " ", "n">>, <<"n", "n", "n", "n", "n", "n", "n">> }
SenseRests ==
    { <<>>,
      <<" ", "b">>,
      <<" ", "=", " ", "<", "r", ">">>,
      <<" ", "=", " ", "<", "r", ">", ",", " ", "<", "s", ">">> }
SenseEndings == { <<>>, <<";">>, <<".">> }

\* [t|o] N. word (_note_rest)ending
SenseLine(n, w, note, rest, ending) ==
    <<"[", "t", "|", "o", "]", " ">> \o n \o <<".", " ">> \o w
        \o <<" ", "(", "_">> \o note \o <<"_">> \o rest \o <<")">> \o ending

SenseLines ==
    { SenseLine(n, w, note, rest, ending) :
        n \in SenseNumbers, w \in SenseWords, note \in SenseNotes,
        rest \in SenseRests, ending \in SenseEndings }

\* chunks of one sense line
InitSense ==
    /\ \E line \in SenseLines : chunk = <<line>>
    /\ pc = "start"
    /\ selected = ""
    /\ article = NoArticle
    /\ IdleTree /\ IdleLabel /\ IdleStruct /\ IdleNorm /\ IdleTok /\ IdleExtra

\* legacy_parser.parse_article(article_text) on a sense line
ParseSenseArticle ==
    /\ pc = "start"
    /\ article' = legacy_parse_head_article(chunk)
    /\ pc' = "done"
    /\ UNCHANGED <<chunk, selected>>
    /\ UNCHANGED <<treeVars, labelVars, structVars, normVars, tokVars, extraVars>>

NextSense == ParseSenseArticle

SpecSense == InitSense /\ [][NextSense]_vars

\* no run leaves the part of parse_article the operators cover
SenseDomainCovered == pc = "done" => ~HasUnmodelled(article.body)

\* the text of a node: its content texts put together
NodeText(block) ==
    JoinAll([k \in DOMAIN block.content |-> block.content[k].text])

\* a content text made of punctuation, parentheses and blanks only
IsDanglingFragment(text) ==
    /\ text # <<>>
    /\ \A k \in DOMAIN text : text[k] \in {",", ";", "(", ")", " "}
    /\ \E k \in DOMAIN text : text[k] \in {"(", ")"}

\* the note of the line as one text holds the target between its parentheses
HoldsTarget(text, target) ==
    \E k \in DOMAIN text :
        k + Len(target) - 1 <= Len(text)
        /\ SubSeq(text, k, k + Len(target) - 1) = target

\* the sense a line of the claimed form must give: a translation numbered n
\* without dangling fragment, with a note child "(note ... )" that keeps the
\* targets
IsClaimedSense(block, n, note, targets) ==
    /\ block.type = "translation"
    /\ block.number = DigitValue(n[1])
    /\ \A k \in DOMAIN block.content : ~IsDanglingFragment(block.content[k].text)
    /\ \E c \in DOMAIN block.children :
            /\ block.children[c].type = "note"
            /\ StartsWith(NodeText(block.children[c]), <<"(">> \o note)
            /\ EndsWith(NodeText(block.children[c]), <<")">>)
            /\ \A t \in DOMAIN targets :
                    HoldsTarget(NodeText(block.children[c]), targets[t])

\* C13: a sense line "N. word (_note_ = <ref>[, <ref2>]);" gives a
\* translation numbered N whose content holds no dangling punctuation or
\* parenthesis fragment, with a note child whose text starts with "(" and the
\* italic text, ends with ")" and keeps every reference target
C13_NoteChildKeepsReferences ==
    pc = "done" =>
        \A n \in SenseNumbers, w \in SenseWords, note \in SenseNotes :
            /\ chunk = <<SenseLine(n, w, note, <<" ", "=", " ", "<", "r", ">">>, <<";">>)>>
                => \E k \in DOMAIN article.body :
                        IsClaimedSense(article.body[k], n, note, <<<<"r">>>>)
            /\ chunk = <<SenseLine(n, w, note,
                            <<" ", "=", " ", "<", "r", ">", ",", " ", "<", "s", ">">>,
                            <<";">>)>>
                => \E k \in DOMAIN article.body :
                        IsClaimedSense(article.body[k], n, note, <<<<"r">>, <<"s">>>>)

\* the same note without references is kept as a note child
NoteWithoutReferencesIsChild ==
    pc = "done" =>
        \A n \in SenseNumbers, w \in SenseWords, note \in SenseNotes :
            chunk = <<SenseLine(n, w, note, <<>>, <<";">>)>>
                => \E k \in DOMAIN article.body :
                        IsClaimedSense(article.body[k], n, note, <<>>)

-----------------------------------------------------------------------------
(* trigger_import and its background task (app/admin.py)                   *)

\* bound on the number of import requests
MaxRequests == 3

Requests == 1..MaxRequests

\* no request has been handled yet: _state["running"] is False
InitImport ==
    /\ running = FALSE
    /\ observed = [r \in Requests |-> FALSE]
    /\ rpc = [r \in Requests |-> "new"]
    /\ IdleTree /\ IdlePipe /\ IdleLabel /\ IdleStruct /\ IdleNorm /\ IdleTok
    /\ IdleTilde /\ IdleLate

\* state = _get_state(): the handler of request r copies the state under the
\* lock
GetState(r) ==
    /\ rpc[r] = "new"
    /\ observed' = [observed EXCEPT ![r] = running]
    /\ rpc' = [rpc EXCEPT ![r] = "read"]
    /\ UNCHANGED running

\* if state["running"]: raise HTTPException(409)
RejectRunning(r) ==
    /\ rpc[r] = "read"
    /\ observed[r]
    /\ rpc' = [rpc EXCEPT ![r] = "conflict"]
    /\ UNCHANGED <<running, observed>>

\* if not data_dir.exists(): raise HTTPException(400)
RejectDataDir(r) ==
    /\ rpc[r] = "read"
    /\ ~observed[r]
    /\ rpc' = [rpc EXCEPT ![r] = "bad_request"]
    /\ UNCHANGED <<running, observed>>

\* background_tasks.add_task(task); return: the request is accepted, its task
\* waits for the response to be sent
AddTask(r) ==
    /\ rpc[r] = "read"
    /\ ~observed[r]
    /\ rpc' = [rpc EXCEPT ![r] = "queued"]
    /\ UNCHANGED <<running, observed>>

\* task(): _update_state(running=True, ...), then run_import begins
TaskStart(r) ==
    /\ rpc[r] = "queued"
    /\ running' = TRUE
    /\ rpc' = [rpc EXCEPT ![r] = "importing"]
    /\ UNCHANGED observed

\* run_import returns or raises; finally: _update_state(running=False)
TaskFinish(r) ==
    /\ rpc[r] = "importing"
    /\ running' = FALSE
    /\ rpc' = [rpc EXCEPT ![r] = "finished"]
    /\ UNCHANGED observed

NextImport ==
    /\ \E r \in Requests :
            \/ GetState(r)
            \/ RejectRunning(r)
            \/ RejectDataDir(r)
            \/ AddTask(r)
            \/ TaskStart(r)
            \/ TaskFinish(r)
    /\ UNCHANGED <<treeVars, pipeVars, labelVars, structVars, normVars, tokVars,
                   tildeVars, lateVars>>

SpecImport == InitImport /\ [][NextImport]_vars

\* the requests whose task is running run_import
Importing == {r \in Requests : rpc[r] = "importing"}

\* the requests accepted whose import has not finished
Accepted == {r \in Requests : rpc[r] \in {"queued", "importing"}}

\* C19: at most one import runs at a time: two import tasks never run
\* concurrently
C19_AtMostOneImport == Cardinality(Importing) <= 1

\* while an import is accepted and not finished no other request is accepted
OneAcceptedAtATime == Cardinality(Accepted) <= 1

\* a request that read the state while a task was between its first state
\* update and its last one is rejected with 409
RejectedWhileRunningIsObserved ==
    \A r \in Requests : rpc[r] = "conflict" => observed[r]

----------------------------------------------------------------------------
(* stitch_multiline_italic_blocks: italic parity and note context          *)
(*                                                                         *)
(* Cyrillic letters appear as p, r, i, m (R for an upper-case one), so the *)
(* note marker reads "_prim."; a, b and A are Latin letters.               *)

MaxStitchLines == 4

CyrillicLetters == {"p", "r", "i", "m", "R"}
LatinLetters == {"a", "b", "A"}
UpperLetters == {"A", "R"}
NoteMarker == <<"_", "p", "r", "i", "m", ".">>

\* ENABLE_PARAGRAPH_BREAKS = False
ENABLE_PARAGRAPH_BREAKS == FALSE

\* The body lines: plain, opening and closing an italic run, the note marker
\* with an even and an odd number of underscores, the three structural
\* lines, indented illustrations, an escaped underscore.
StitchLineSet ==
    { <<"a">>,
      <<"_", "r">>,
      <<"r", "_">>,
      <<"_", "p", "r", "i", "m", ".", "_", " ", "r">>,
      <<"_", "p", "r", "i", "m", ".", " ", "r">>,
      <<"1", ".", " ", "r">>,
      <<"@", "a">>,
      <<"[", "a", "]">>,
      <<"\t", "a", " ", "r", ".">>,
      <<"\t", "R">>,
      <<"\t", "\t", "r", "_">>,
      <<"a", "\\", "_">> }

\* lit in text
HasSubSeq(text, lit) ==
    \E k \in 1..(Len(text) - Len(lit) + 1) : SubSeq(text, k, k + Len(lit) - 1) = lit

\* the raw tree as nested nodes; id is the position of the node's line among
\* the non-blank lines
RECURSIVE RawForest(_, _)
RawForest(ns, list) ==
    [k \in 1..Len(list) |->
        [id |-> list[k], text |-> ns[list[k]].text, indent |-> ns[list[k]].indent,
         children |-> RawForest(ns, ChildrenOf(ns, list[k]))]]

\* is_note_start = '_прим.' in current_text
is_note_start(text) == HasSubSeq(text, NoteMarker)

\* is_structural_line
is_structural_line(text) ==
    \/ StartsWith(text, <<"[">>)
    \/ MatchesNumberedSense(text)
    \/ StartsWith(text, <<"@">>)

has_latin(text) == \E k \in DOMAIN text : text[k] \in LatinLetters
has_cyrillic(text) == \E k \in DOMAIN text : text[k] \in CyrillicLetters

\* first_char = current_stripped.lstrip('_')[0] ...; 'Ѐ' <= first_char
starts_with_cyrillic(text) ==
    /\ LStripChar(Strip(text), "_") # <<>>
    /\ LStripChar(Strip(text), "_")[1] \in CyrillicLetters

\* a line that mixes Latin and Cyrillic followed by one starting in Cyrillic
IsContinuation(prev_text, text) ==
    /\ has_latin(Strip(prev_text))
    /\ has_cyrillic(Strip(prev_text))
    /\ starts_with_cyrillic(text)

\* should_stitch, from the last node of result and the current node
should_stitch(result, node, italic_state_open) ==
    /\ result # <<>>
    /\ ~is_structural_line(node.text)
    /\ \/ result[Len(result)].indent = node.indent /\ italic_state_open
       \/ /\ node.indent > result[Len(result)].indent
          /\ IsContinuation(result[Len(result)].text, node.text)

\* if underscores % 2 == 1: next_italic_state = not next_italic_state
NextItalic(text, italic_state_open) ==
    IF count_unescaped_underscores(text) % 2 = 1
    THEN ~italic_state_open ELSE italic_state_open

IsTerminal(c) == c \in {".", "?", "!"}

\* prev_text[-1] in '.?!' and trimmed_current[0].isupper()
ForcedNewline(prev_text, trimmed) ==
    /\ trimmed # <<>>
    /\ prev_text # <<>>
    /\ IsTerminal(prev_text[Len(prev_text)])
    /\ trimmed[1] \in UpperLetters

\* the text of the target after a stitch, before the trailing newline
JoinedText(target_text, trimmed, forced) ==
    IF forced THEN RStrip(target_text) \o <<"\n">> \o trimmed
    ELSE IF EndsWith(target_text, <<"\n">>) THEN target_text \o trimmed
    ELSE RStrip(target_text) \o <<" ">> \o trimmed

\* newline_after: a short current line ending in terminal punctuation
NewlineAfter(current_text, breaks, forced) ==
    /\ breaks
    /\ ~forced
    /\ Len(RStrip(current_text)) < 30
    /\ RStrip(current_text) # <<>>
    /\ IsTerminal(RStrip(current_text)[Len(RStrip(current_text))])

WithTrailingNewline(joined, wanted) ==
    IF wanted /\ ~EndsWith(joined, <<"\n">>) THEN joined \o <<"\n">> ELSE joined

StitchedTextFrom(target_text, current_text, apply_breaks, breaks, forced, has_next) ==
    WithTrailingNewline(
        JoinedText(target_text, LStrip(current_text), forced),
        apply_breaks /\ NewlineAfter(current_text, breaks, forced) /\ has_next)

\* target_node['text'] of the should_stitch branch
StitchedText(target_text, current_text, note_ctx, italic_state_open, has_next) ==
    StitchedTextFrom(
        target_text, current_text,
        ENABLE_PARAGRAPH_BREAKS \/ note_ctx \/ italic_state_open,
        /\ (ENABLE_PARAGRAPH_BREAKS \/ note_ctx \/ italic_state_open)
        /\ italic_state_open
        /\ LStrip(current_text) # <<>>,
        /\ (ENABLE_PARAGRAPH_BREAKS \/ note_ctx \/ italic_state_open)
        /\ italic_state_open
        /\ ForcedNewline(RStrip(target_text), LStrip(current_text)),
        has_next)

\* the first child folded into its parent: an illustration and its gloss
FoldFirstChild(node) ==
    IF /\ node.children # <<>>
       /\ node.indent > 0
       /\ ~MatchesNumberedSpace(Strip(node.text))
       /\ IsContinuation(node.text, node.children[1].text)
    THEN [node EXCEPT
            !.text = RStrip(node.text) \o <<" ">> \o LStrip(node.children[1].text),
            !.children = node.children[1].children \o Tail(node.children)]
    ELSE node

\* should_merge_child_with_parent
should_merge_child_with_parent(parent_node, child_node, italic_state_open) ==
    IF ~italic_state_open THEN FALSE
    ELSE IF parent_node.note_context THEN FALSE
    ELSE IF Strip(child_node.text) = <<>> THEN TRUE
    ELSE IF \/ StartsWith(Strip(child_node.text), <<"@">>)
            \/ StartsWith(Strip(child_node.text), <<"[">>) THEN FALSE
    ELSE IF MatchesNumberedSense(Strip(child_node.text)) THEN FALSE
    ELSE IF child_node.children # <<>> /\ EndsWith(Strip(child_node.text), <<":">>)
         THEN TRUE
    ELSE child_node.children = <<>>

\* the target after its first child has been merged into it
MergedWith(target, child) ==
    [target EXCEPT
        !.text = JoinedText(target.text, LStrip(child.text),
                            ForcedNewline(RStrip(target.text), LStrip(child.text))),
        !.children = child.children \o Tail(target.children)]

\* while target_node['children']: merge the first child or break
RECURSIVE MergeChildren(_, _)
MergeChildren(target, next_italic_state) ==
    IF /\ next_italic_state
       /\ target.children # <<>>
       /\ should_merge_child_with_parent(target, target.children[1], next_italic_state)
    THEN MergeChildren(MergedWith(target, target.children[1]),
                       NextItalic(target.children[1].text, next_italic_state))
    ELSE [node |-> target, italic |-> next_italic_state]

\* the node with the flags written on it and its stitched children
VisitedNode(node, italic_state_open, note_ctx, children) ==
    [id |-> node.id, text |-> node.text, indent |-> node.indent,
     children |-> children,
     italic_open_before |-> italic_state_open, note_context |-> note_ctx]

\* result after the node has been stitched to the last node or appended
Placed(result, node, italic_state_open, note_ctx, has_next, children) ==
    IF should_stitch(result, node, italic_state_open)
    THEN [result EXCEPT ![Len(result)] =
            [@ EXCEPT
                !.text = StitchedText(@, node.text, note_ctx, italic_state_open, has_next),
                !.children = @ \o children]]
    ELSE Append(result,
                FoldFirstChild(VisitedNode(node, italic_state_open, note_ctx, children)))

\* the end of one iteration: the merged target replaces the last node, the
\* note context and the italic state move on
AfterMerge(node, acc, sub_visited, result, merged) ==
    [result |-> [result EXCEPT ![Len(result)] = merged.node],
     note_context_active |->
        IF is_note_start(node.text) THEN TRUE
        ELSE IF is_structural_line(node.text) THEN FALSE
        ELSE acc.note_context_active,
     italic_state_open |-> merged.italic,
     flags |-> acc.flags \cup sub_visited \cup
               {[id |-> node.id,
                 italic_open_before |-> acc.italic_state_open,
                 note_context |-> acc.note_context_active \/ is_note_start(node.text)]}]

AfterPlacement(node, acc, sub_visited, result) ==
    AfterMerge(node, acc, sub_visited, result,
               MergeChildren(result[Len(result)],
                             NextItalic(node.text, acc.italic_state_open)))

AfterChildren(node, has_next, acc, sub) ==
    AfterPlacement(node, acc, sub.flags,
                   Placed(acc.result, node, acc.italic_state_open,
                          acc.note_context_active \/ is_note_start(node.text),
                          has_next, sub.result))

RECURSIVE stitch_recursive(_, _, _)

\* one iteration of `for idx, node in enumerate(nodes)`
StitchNode(node, has_next, acc) ==
    AfterChildren(node, has_next, acc,
                  stitch_recursive(node.children,
                                   NextItalic(node.text, acc.italic_state_open),
                                   acc.note_context_active \/ is_note_start(node.text)))

RECURSIVE StitchLoop(_, _, _)
StitchLoop(list, k, acc) ==
    IF k > Len(list) THEN acc
    ELSE StitchLoop(list, k + 1, StitchNode(list[k], k < Len(list), acc))

\* stitch_recursive(nodes, italic_open, in_note_context): result is the
\* returned list, flags the flags written on every node of the call
stitch_recursive(list, italic_open, in_note_context) ==
    StitchLoop(list, 1,
               [result |-> <<>>,
                note_context_active |-> in_note_context,
                italic_state_open |-> italic_open,
                flags |-> {}])

stitch_multiline_italic_blocks(tree, italic_open) ==
    stitch_recursive(tree, italic_open, FALSE)

InitStitch ==
    /\ IdleTree /\ IdlePipe /\ IdleLabel /\ IdleStruct /\ IdleNorm /\ IdleTok
    /\ IdleTilde /\ IdleImport /\ IdleClass /\ IdleFinal /\ IdleRest
    /\ stitched = <<>> /\ visited = {} /\ sopen = FALSE /\ stpc = "build"

\* build_raw_tree reads one more body line
ReadBodyLine ==
    /\ stpc = "build"
    /\ Len(input) < MaxStitchLines
    /\ \E line \in StitchLineSet : BuildStep(line)
    /\ UNCHANGED <<pipeVars, labelVars, structVars, normVars, tokVars,
                   tildeVars, importVars, stitchVars, classVars, finalVars,
                   restVars>>

\* stitched_tree = stitch_multiline_italic_blocks(raw_tree, italic_open=...)
Stitch ==
    /\ stpc = "build"
    /\ \E italic_open \in BOOLEAN :
        /\ sopen' = italic_open
        /\ stitched' =
             stitch_multiline_italic_blocks(
                 RawForest(nodes, ChildrenOf(nodes, 0)), italic_open).result
        /\ visited' =
             stitch_multiline_italic_blocks(
                 RawForest(nodes, ChildrenOf(nodes, 0)), italic_open).flags
    /\ stpc' = "stitched"
    /\ UNCHANGED <<treeVars, pipeVars, labelVars, structVars, normVars, tokVars,
                   tildeVars, importVars, classVars, finalVars, restVars>>

NextStitch == ReadBodyLine \/ Stitch

SpecStitch == InitStitch /\ [][NextStitch]_vars

\* the flags the stitcher wrote on raw node n
FlagsOf(n) == CHOOSE f \in visited : f.id = n

\* every raw node is visited once
EveryNodeVisited ==
    stpc = "stitched" =>
        /\ \A n \in DOMAIN nodes : \E f \in visited : f.id = n
        /\ Cardinality(visited) = Len(nodes)

\* the raw nodes in document order
DocumentOrder == PreOrder(nodes, ChildrenOf(nodes, 0))

HasOddUnderscores(n) == count_unescaped_underscores(nodes[n].text) % 2 = 1

\* the lines that precede position k of the document order and flip the
\* italic state
OddBefore(k) == {j \in 1..(k - 1) : HasOddUnderscores(DocumentOrder[j])}

Flipped(open, times) == IF times % 2 = 1 THEN ~open ELSE open

\* C22: the italic parity is threaded in depth-first order: for every node,
\* italic_open_before is the italic_open of the call flipped once for each
\* line with an odd number of unescaped underscores among all the lines that
\* precede the node in document order, the subtrees of earlier siblings
\* included.
C22_ParityInDocumentOrder ==
    stpc = "stitched" =>
        \A k \in DOMAIN DocumentOrder :
            FlagsOf(DocumentOrder[k]).italic_open_before
                = Flipped(sopen, Cardinality(OddBefore(k)))

\* the state goes from a line into its first child
FirstChildFollowsParent ==
    stpc = "stitched" =>
        \A n \in DOMAIN nodes :
            ChildrenOf(nodes, n) # <<>> =>
                FlagsOf(ChildrenOf(nodes, n)[1]).italic_open_before
                    = Flipped(FlagsOf(n).italic_open_before,
                              IF HasOddUnderscores(n) THEN 1 ELSE 0)

\* the first line of the body starts from the italic_open of the call
FirstLineStartsFromArgument ==
    stpc = "stitched" /\ nodes # <<>> => FlagsOf(1).italic_open_before = sopen

\* the sibling lists of the raw tree: the roots and each node's children
SiblingLists == {ChildrenOf(nodes, p) : p \in 0..Len(nodes)}

IsMarkerLine(n) == is_note_start(nodes[n].text)
IsStructuralNode(n) == is_structural_line(nodes[n].text)

\* a structural line without the marker is outside the note context
StructuralLineOutsideNote ==
    stpc = "stitched" =>
        \A n \in DOMAIN nodes :
            IsStructuralNode(n) /\ ~IsMarkerLine(n) => ~FlagsOf(n).note_context

\* the siblings after a structural line without the marker, up to the next
\* marker line, are outside the note context
AfterStructuralOutsideNote ==
    stpc = "stitched" =>
        \A list \in SiblingLists : \A k \in DOMAIN list : \A j \in DOMAIN list :
            /\ k < j
            /\ IsStructuralNode(list[k])
            /\ \A q \in k..j : ~IsMarkerLine(list[q])
            => ~FlagsOf(list[j]).note_context

\* the non-structural siblings between a marker line and the next structural
\* line are inside the note context
AfterMarkerInsideNote ==
    stpc = "stitched" =>
        \A list \in SiblingLists : \A k \in DOMAIN list : \A j \in DOMAIN list :
            /\ k < j
            /\ IsMarkerLine(list[k])
            /\ \A q \in (k + 1)..j : ~IsStructuralNode(list[q])
            => FlagsOf(list[j]).note_context

\* C23: the note context turns on at a line containing the note marker and
\* stays on for the following siblings until a structural line resets it: a
\* structural line without the marker and every sibling after it up to the
\* next marker line are outside the note context, every non-structural
\* sibling between a marker line and the next structural line is inside it.
C23_NoteContextUntilStructural ==
    /\ StructuralLineOutsideNote
    /\ AfterStructuralOutsideNote
    /\ AfterMarkerInsideNote


----------------------------------------------------------------------------
(* classify_node: the type of a stitched node                              *)
(*                                                                         *)
(* The numbered branch, the notes, the explanations and the default branch *)
(* are modelled with the node they return and the children they give it;   *)
(* of an illustration and a headword the model keeps the type and the      *)
(* children and leaves the content out.                                    *)

\* the texts of the stitched nodes: numbered senses whose remainder is a
\* word, a note, a reference, a period or nothing; idiom lines, one with an
\* italic run closed by a colon, one with a tilde before a letter; a plain
\* line, an italic line, an example, a nested headword
ClassifyTexts ==
    { <<"1", ".", " ", "a">>,
      <<"1", ".", " ", "a", ".">>,
      <<"2", ".", " ", "(", "_", "n", "_", ")">>,
      <<"1", ".", " ", "(", "_", "n", "_", ")", " ", "b">>,
      <<"2", ".", " ", "<", "r", ">">>,
      <<"1", ".", " ", ".">>,
      <<"1", ".">>,
      <<"@", " ", "a">>,
      <<"@", " ", "_", "a", "_", ":", " ", "b">>,
      <<"@", " ", "~", "a">>,
      <<"a">>,
      <<"_", "a", "_">>,
      <<"~", "a", " ", "b">>,
      <<"[", "a", "]", " ", "b">> }

ClassifyIndents == {0, 1}

\* int(num_match.group(1))
RECURSIVE DigitsValue(_, _)
DigitsValue(digits, acc) ==
    IF digits = <<>> THEN acc
    ELSE DigitsValue(Tail(digits), 10 * acc + DigitValue(Head(digits)))

LeadingNumber(text) == DigitsValue(SubSeq(text, 1, LeadingDigits(text)), 0)

IsAttachedType(type) == type \in {"explanation", "note", "illustration"}

\* primary_node['sentence_ending'] = extra.get('text'), for each sentence
\* divider among the extras: the last one stays
RECURSIVE SentenceEndingOf(_, _)
SentenceEndingOf(extras, ending) ==
    IF extras = <<>> THEN ending
    ELSE SentenceEndingOf(
            Tail(extras),
            IF Head(extras).type = "sentence_divider"
            THEN Head(extras).text ELSE ending)

\* the numbered branch, from the nodes parse_headword_remainder returned
ClassifiedNumbered(text, parsed_nodes) ==
    IF parsed_nodes = <<>>
    THEN [node |-> [Block("translation") EXCEPT !.number = LeadingNumber(text)],
          sentence_ending |-> None,
          extra_nodes |-> <<>>,
          drops_children |-> FALSE]
    ELSE [node |->
            [parsed_nodes[1] EXCEPT !.children =
                @ \o SelectSeq(Tail(parsed_nodes),
                               LAMBDA extra : IsAttachedType(extra.type))],
          sentence_ending |-> SentenceEndingOf(Tail(parsed_nodes), None),
          extra_nodes |->
            SelectSeq(Tail(parsed_nodes),
                      LAMBDA extra : /\ ~IsAttachedType(extra.type)
                                     /\ extra.type # "sentence_divider"),
          drops_children |-> FALSE]

\* a node returned by a branch other than the numbered one; drops_children
\* tells that the branch has emptied node['children']
Classified(type) ==
    [node |-> Block(type), sentence_ending |-> None, extra_nodes |-> <<>>,
     drops_children |-> FALSE]

ClassifiedWith(type, content, children) ==
    [node |-> [Block(type) EXCEPT !.content = content, !.children = children],
     sentence_ending |-> None, extra_nodes |-> <<>>, drops_children |-> FALSE]

\* the example: the texts of child lines that are no examples themselves
\* are glued to the text and node['children'] is emptied
ExampleIllustration(node) ==
    [Classified("illustration") EXCEPT
        !.drops_children =
            /\ node.children # <<>>
            /\ ~\E k \in DOMAIN node.children :
                    StartsWith(Strip(node.children[k].text), <<"~">>)]

\* parse_rich_text(text, preserve_punctuation=True, italic_open), then
\* merge_punctuation_with_italic and absorb_parentheses_into_italic
ExplanationContent(text, italic_open) ==
    absorb_parentheses_into_italic(
        merge_punctuation_with_italic(
            legacy_parse_rich_text_preserve(text, italic_open)))

\* text.split(':', 1)
BeforeColon(text) == SubSeq(text, 1, Find(text, ":", 1) - 1)
AfterColon(text) == SubSeq(text, Find(text, ":", 1) + 1, Len(text))

\* examples = [ex.strip() for ex in remainder.split(';') if ex.strip()]: one
\* illustration for each
ExampleChildren(remainder) ==
    [k \in DOMAIN SelectSeq(Split(remainder, ";"), LAMBDA ex : Strip(ex) # <<>>)
        |-> Block("illustration")]

\* the nested explanation with examples after the colon
ColonExplanation(text) ==
    ClassifiedWith("explanation",
                   ExplanationContent(Strip(BeforeColon(text) \o <<":">>), FALSE),
                   ExampleChildren(Strip(AfterColon(text))))

\* cleaned = stripped.replace('_', '').strip()
ParenthesisExplanation(text) ==
    ClassifiedWith("explanation",
                   <<LegacySegment("italic", Strip(Remove(Strip(text), "_")))>>,
                   <<>>)

\* re.search(r'~[a-zA-Z]', stripped_text), on the Latin letters of the texts
HasTildeBeforeLetter(text) ==
    \E k \in 1..(Len(text) - 1) : text[k] = "~" /\ text[k + 1] \in LatinLetters

\* is_example
IsExample(text) ==
    StartsWith(Strip(text), <<"~">>) \/ HasTildeBeforeLetter(Strip(text))

\* merge_consecutive_text_segments
RECURSIVE MergeConsecutive(_, _)
MergeConsecutive(segments, merged) ==
    IF segments = <<>> THEN merged
    ELSE IF /\ Head(segments).type = "text"
            /\ merged # <<>>
            /\ merged[Len(merged)].type = "text"
            /\ merged[Len(merged)].style = Head(segments).style
    THEN MergeConsecutive(
            Tail(segments),
            IF Head(segments).text = <<>> THEN merged
            ELSE [merged EXCEPT ![Len(merged)].text =
                    IF /\ @ # <<>>
                       /\ ~IsSpace(@[Len(@)])
                       /\ Head(segments).text[1] \notin
                            {",", ".", ";", ":", ")", "]", "?", "!"}
                    THEN @ \o <<" ">> \o Head(segments).text
                    ELSE @ \o Head(segments).text])
    ELSE MergeConsecutive(Tail(segments), Append(merged, Head(segments)))

\* text.strip(c)
StripChar(text, c) == LStripChar(RStripChar(text, c), c)

\* definitions.append(current_def.strip()) when it is not blank
WithDefinition(definitions, current_def) ==
    IF Strip(current_def) = <<>> THEN definitions
    ELSE Append(definitions, Strip(current_def))

\* the loop of split_definitions_by_semicolon over the characters of the
\* text, from position st.i
RECURSIVE DefinitionLoop(_, _)
DefinitionLoop(text, st) ==
    IF st.i > Len(text) THEN WithDefinition(st.definitions, st.current_def)
    ELSE IF text[st.i] = "_" /\ (st.i = 1 \/ text[st.i - 1] # "\\")
    THEN DefinitionLoop(text, [st EXCEPT !.in_italic = ~@, !.i = @ + 1,
                                         !.current_def = Append(@, text[st.i])])
    ELSE IF text[st.i] \in {"(", ")"} /\ ~st.in_italic
    THEN DefinitionLoop(text, [st EXCEPT
            !.paren_level = IF text[st.i] = "(" THEN @ + 1 ELSE @ - 1,
            !.i = @ + 1, !.current_def = Append(@, text[st.i])])
    ELSE IF text[st.i] \in {"{", "}"} /\ ~st.in_italic
    THEN DefinitionLoop(text, [st EXCEPT
            !.brace_level = IF text[st.i] = "{" THEN @ + 1 ELSE @ - 1,
            !.i = @ + 1, !.current_def = Append(@, text[st.i])])
    ELSE IF /\ text[st.i] = ";"
            /\ st.brace_level = 0 /\ st.paren_level = 0 /\ ~st.in_italic
    THEN DefinitionLoop(text, [st EXCEPT
            !.definitions = WithDefinition(@, st.current_def),
            !.current_def = <<>>, !.i = @ + 1])
    ELSE DefinitionLoop(text, [st EXCEPT !.i = @ + 1,
                                         !.current_def = Append(@, text[st.i])])

split_definitions_by_semicolon(text) ==
    IF ~Contains(text, ";") THEN <<text>>
    ELSE DefinitionLoop(text, [i |-> 1, definitions |-> <<>>, current_def |-> <<>>,
                               brace_level |-> 0, paren_level |-> 0,
                               in_italic |-> FALSE])

\* any(ch in '()[]{}' for ch in stripped)
HasBracketChar(text) ==
    \E k \in DOMAIN text : text[k] \in {"(", ")", "[", "]", "{", "}"}

\* the step of split_translation_segments for an italic segment
SplitItalicSegment(st, stripped) ==
    IF StartsWith(stripped, <<"(">>) /\ EndsWith(stripped, <<")">>)
    THEN [st EXCEPT !.explanation_parts =
                        Append(@, LegacySegment("italic", stripped))]
    ELSE IF stripped \in {<<",">>, <<";">>, <<":">>, <<".">>, <<"!">>, <<"?">>}
    THEN [st EXCEPT !.translation_parts =
                        Append(@, [type |-> "divider", style |-> "",
                                   text |-> stripped])]
    ELSE IF /\ RStripChar(stripped, ".") # <<>>
            /\ Len(RStripChar(stripped, ".")) <= 6
            /\ ~Contains(RStripChar(stripped, "."), " ")
    THEN [st EXCEPT !.translation_parts =
                        Append(@, IF HasBracketChar(stripped)
                                  THEN LegacySegment("italic", stripped)
                                  ELSE [type |-> "label", style |-> "",
                                        text |-> stripped])]
    ELSE IF stripped # <<>>
    THEN [st EXCEPT !.explanation_parts =
                        Append(@, LegacySegment("italic", stripped))]
    ELSE st

\* the step of split_translation_segments for one segment
SplitSegment(st, segment) ==
    IF segment.type = "note"
    THEN IF StripChar(segment.text, "_") = <<>> THEN st
         ELSE [st EXCEPT !.explanation_parts =
                 Append(@, LegacySegment("italic",
                             <<"(">> \o StripChar(segment.text, "_") \o <<")">>))]
    ELSE IF segment.type = "divider"
    THEN [st EXCEPT !.translation_parts =
                        Append(@, [type |-> "divider", style |-> "",
                                   text |-> segment.text])]
    ELSE IF segment.style = "italic" THEN SplitItalicSegment(st, Strip(segment.text))
    ELSE IF segment.type = "text"
    THEN IF Strip(segment.text) = <<>> THEN st
         ELSE [st EXCEPT !.translation_parts =
                 Append(@, LegacySegment(segment.style, Strip(segment.text)))]
    ELSE [st EXCEPT !.translation_parts = Append(@, segment)]

\* split_translation_segments(segments): [translation_parts, explanation_parts]
RECURSIVE split_translation_segments(_, _)
split_translation_segments(segments, st) ==
    IF segments = <<>> THEN st
    ELSE split_translation_segments(Tail(segments), SplitSegment(st, Head(segments)))

\* extract_sentence_ending(parts): the text of a last part made of sentence
\* marks, <<>> when there is none
extract_sentence_ending(parts) ==
    IF parts = <<>> THEN <<>>
    ELSE IF \/ Strip(parts[Len(parts)].text) = <<>>
            \/ \E k \in DOMAIN Strip(parts[Len(parts)].text) :
                    Strip(parts[Len(parts)].text)[k] \notin {".", "!", "?"}
    THEN <<>>
    ELSE IF parts[Len(parts)].type \in {"divider", "text"}
    THEN Strip(parts[Len(parts)].text)
    ELSE <<>>

\* the parts without the last one, which extract_sentence_ending pops when it
\* returns an ending
Popped(parts) ==
    IF extract_sentence_ending(parts) = <<>> THEN parts
    ELSE SubSeq(parts, 1, Len(parts) - 1)

\* parse_rich_text of the default branch, with the two merges of the preserve
\* mode
DefaultContent(text, preserve, italic_open) ==
    IF preserve
    THEN absorb_parentheses_into_italic(
            merge_punctuation_with_italic(
                legacy_parse_rich_text_preserve(text, italic_open)))
    ELSE legacy_parse_rich_text_normal(text, italic_open)

\* result['type'] of the default branch: an explanation when a translation
\* part is italic text, idiomatics for a line that starts with @
DefaultType(text, translation_parts) ==
    IF StartsWith(LStrip(text), <<"@">>) THEN "idiomatics"
    ELSE IF \E k \in DOMAIN translation_parts :
                /\ translation_parts[k].type = "text"
                /\ translation_parts[k].style = "italic"
    THEN "explanation"
    ELSE "translation"

\* the explanation child of the default branch
ExplanationChild(explanation_parts) ==
    IF explanation_parts = <<>> THEN <<>>
    ELSE <<[Block("explanation") EXCEPT !.content = explanation_parts]>>

\* the ending of the default branch, None when there is none
EndingOrNone(ending) == IF ending = <<>> THEN None ELSE ending

\* the default branch, from the translation and the explanation parts
DefaultFromParts(text, tp, ep) ==
    IF extract_sentence_ending(tp) # <<>> \/ tp # <<>>
    THEN [node |-> [Block(DefaultType(text, Popped(tp))) EXCEPT
                        !.content = MergeConsecutive(Popped(tp), <<>>),
                        !.children = ExplanationChild(ep)],
          sentence_ending |-> EndingOrNone(extract_sentence_ending(tp)),
          extra_nodes |-> <<>>, drops_children |-> FALSE]
    ELSE [node |-> [Block(DefaultType(text, tp)) EXCEPT
                        !.children = ExplanationChild(Popped(ep))],
          sentence_ending |-> EndingOrNone(extract_sentence_ending(ep)),
          extra_nodes |-> <<>>, drops_children |-> FALSE]

DefaultSplit(text, split) ==
    DefaultFromParts(text, split.translation_parts, split.explanation_parts)

\* the default branch of classify_node; of a line with several definitions
\* the translations are left out
DefaultNode(node) ==
    IF Len(split_definitions_by_semicolon(node.text)) > 1
    THEN Classified(DefaultType(node.text, <<>>))
    ELSE DefaultSplit(node.text,
            split_translation_segments(
                DefaultContent(node.text,
                               node.italic_open_before \/ Contains(node.text, "_"),
                               node.italic_open_before),
                [translation_parts |-> <<>>, explanation_parts |-> <<>>]))

\* classify_node after the headword, open-italic and numbered branches
ClassifyRest(node, in_note_context) ==
    IF /\ in_note_context \/ is_note_start(node.text)
       /\ ~is_structural_line(node.text)
    THEN IF node.indent > 0 /\ ~StartsWith(node.text, <<"_">>)
         THEN Classified("illustration")
         ELSE ClassifiedWith("note",
                             legacy_parse_rich_text_preserve(node.text, FALSE), <<>>)
    ELSE IF node.indent > 0 /\ HasSubSeq(node.text, <<"_", ":">>)
    THEN ColonExplanation(node.text)
    ELSE IF StartsWith(node.text, <<"_">>)
    THEN ClassifiedWith("explanation", ExplanationContent(node.text, FALSE), <<>>)
    ELSE IF /\ node.indent > 0
            /\ StartsWith(Strip(node.text), <<"(">>)
            /\ Contains(Strip(node.text), "_")
    THEN ParenthesisExplanation(node.text)
    ELSE IF node.indent > 0 /\ IsExample(node.text) THEN ExampleIllustration(node)
    ELSE DefaultNode(node)

\* the headword branch: the remainder of the line becomes the children (the
\* remainder of a morpheme headword is left out)
HeadwordNode(head) ==
    IF head.remaining = <<>> THEN Classified("headword")
    ELSE IF IsMorphemeHeadword(head.lemmas) THEN Classified("unmodelled")
    ELSE ClassifiedWith("headword", <<>>,
                        parse_headword_remainder(head.remaining))

\* classify_node(node, in_note_context)
classify_node(node, in_note_context) ==
    IF StartsWith(node.text, <<"[">>) /\ Contains(node.text, "]")
    THEN HeadwordNode(parse_headword(node.text))
    ELSE IF /\ node.italic_open_before
            /\ ~node.note_context
            /\ ~in_note_context
            /\ ~StartsWith(node.text, <<"@">>)
            /\ ~StartsWith(node.text, <<"[">>)
            /\ ~StartsWith(node.text, <<"_">>)
            /\ ~MatchesNumberedSense(node.text)
    THEN ClassifiedWith("explanation", ExplanationContent(node.text, TRUE), <<>>)
    ELSE IF MatchesNumberedSense(node.text)
    THEN ClassifiedNumbered(node.text, parse_headword_remainder(node.text))
    ELSE ClassifyRest(node, in_note_context)

\* a stitched node: its text, its indent and the two flags of the stitcher
InitClassify ==
    /\ \E text \in ClassifyTexts, indent \in ClassifyIndents,
          italic_open_before \in BOOLEAN, note_context \in BOOLEAN :
            cnode = [text |-> text, indent |-> indent, children |-> <<>>,
                     italic_open_before |-> italic_open_before,
                     note_context |-> note_context]
    /\ cctx \in BOOLEAN
    /\ cresult = <<>>
    /\ cpc = "start"
    /\ IdleTree /\ IdlePipe /\ IdleLabel /\ IdleStruct /\ IdleNorm /\ IdleTok
    /\ IdleTilde /\ IdleImport /\ IdleStitch /\ IdleFinal /\ IdleRest

\* processed_node = classify_node(node, current_node_in_note_context)
Classify ==
    /\ cpc = "start"
    /\ cresult' = classify_node(cnode, cctx)
    /\ cpc' = "done"
    /\ UNCHANGED <<cnode, cctx>>
    /\ UNCHANGED <<treeVars, pipeVars, labelVars, structVars, normVars, tokVars,
                   tildeVars, importVars, stitchVars, finalVars, restVars>>

NextClassify == Classify

SpecClassify == InitClassify /\ [][NextClassify]_vars

\* no node leaves the part of classify_node the operators cover
ClassifyDomainCovered ==
    cpc = "done" =>
        /\ cresult.node.type # "unmodelled"
        /\ \A k \in DOMAIN cresult.extra_nodes :
                cresult.extra_nodes[k].type # "unmodelled"

\* C24: every line matching ^\d+\. is classified as a Translation carrying
\* number = the leading integer, whatever the remainder of the line holds;
\* the further fragments parsed from the remainder are its children or its
\* following siblings.
C24_NumberedIsTranslation ==
    (cpc = "done" /\ MatchesNumberedSense(cnode.text)) =>
        /\ cresult.node.type = "translation"
        /\ cresult.node.number = LeadingNumber(cnode.text)
        /\ \A k \in DOMAIN cresult.extra_nodes :
                cresult.extra_nodes[k].type # "sentence_divider"

\* the node returned for a numbered line carries the leading integer
NumberedCarriesNumber ==
    (cpc = "done" /\ MatchesNumberedSense(cnode.text)) =>
        cresult.node.number = LeadingNumber(cnode.text)

\* C25: every line whose text begins with @ is classified as Idiomatics,
\* whatever its indent, italic state, note context and remaining content.
C25_AtIsIdiomatics ==
    (cpc = "done" /\ StartsWith(cnode.text, <<"@">>)) =>
        cresult.node.type = "idiomatics"

\* a line that begins with @ and has no indent is classified as Idiomatics
AtWithoutIndentIsIdiomatics ==
    (cpc = "done" /\ StartsWith(cnode.text, <<"@">>) /\ cnode.indent = 0) =>
        cresult.node.type = "idiomatics"


----------------------------------------------------------------------------
(* process_final_tree: the nodes of the body, from the stitched tree       *)
(*                                                                         *)
(* The state of the loop: result, the open note block with its content,    *)
(* note_base_indent (<<>> for None) and note_context_active.  The content  *)
(* of a node is what classify_node above returns for it.                   *)

MaxFinalLines == 3

\* The body lines: numbered senses whose remainder is a word, a period or a
\* note, a marker line, plain lines with and without final period, indented
\* lines, an example.
FinalLineSet ==
    { <<"1", ".", " ", "a">>,
      <<"2", ".", " ", ".">>,
      <<"2", ".", " ", "(", "_", "n", "_", ")">>,
      <<"_", "p", "r", "i", "m", ".", "_", " ", "r">>,
      <<"a">>,
      <<"\t", "b">>,
      <<"\t", "~", "a", " ", "b">>,
      <<"\t", "\t", "b">> }

NoBlock == [open |-> FALSE, content |-> <<>>]

\* normalize_explanation(node) of process_final_tree: dividers and
\* punctuation become regular text, consecutive texts of a style are merged
NormalizedExplanationItem(item) ==
    IF item.type = "divider" \/ item.text \in {<<":">>, <<";">>, <<",">>, <<".">>,
                                                <<"?">>, <<"!">>, <<>>}
    THEN LegacySegment("regular", item.text)
    ELSE item

NormalizedExplanation(block) ==
    IF block.type # "explanation" THEN block
    ELSE [block EXCEPT !.content =
            MergeConsecutive(
                [k \in DOMAIN @ |-> NormalizedExplanationItem(@[k])], <<>>)]

\* processed_node after the normalize_explanation calls on it and on its
\* extra nodes
WithNormalizedExplanations(processed) ==
    [processed EXCEPT
        !.node = NormalizedExplanation(@),
        !.extra_nodes = [k \in DOMAIN @ |-> NormalizedExplanation(@[k])]]

\* append_processed(target_list, node) with the sentence_ending popped from
\* the node
append_processed(target_list, node, ending) ==
    (IF /\ node.type = "explanation"
        /\ target_list # <<>>
        /\ target_list[Len(target_list)].type = "explanation"
        /\ node.number = 0
        /\ target_list[Len(target_list)].number = 0
     THEN [target_list EXCEPT ![Len(target_list)].content = @ \o node.content]
     ELSE Append(target_list, node))
    \o (IF ending # None THEN <<SentenceDivider(ending)>> ELSE <<>>)

RECURSIVE AppendExtras(_, _)
AppendExtras(target_list, extra_nodes) ==
    IF extra_nodes = <<>> THEN target_list
    ELSE AppendExtras(append_processed(target_list, Head(extra_nodes), None),
                      Tail(extra_nodes))

\* flush_note_block()
flush_note_block(st) ==
    [st EXCEPT
        !.result = IF st.block.open /\ st.block.content # <<>>
                   THEN Append(@, [Block("note") EXCEPT !.content = st.block.content])
                   ELSE @,
        !.block = NoBlock,
        !.base = <<>>]

\* resets_due_to_indent or resets_due_to_structure
ResetsNoteBlock(st, node) ==
    /\ st.block.open
    /\ st.base # <<>>
    /\ \/ node.indent < st.base[1]
       \/ node.indent = st.base[1] /\ ~StartsWith(LStrip(node.text), <<"_">>)

AfterReset(st, node) ==
    IF (st.note_context_active \/ st.block.open) /\ ResetsNoteBlock(st, node)
    THEN [flush_note_block(st) EXCEPT !.note_context_active = FALSE]
    ELSE st

\* current_node_in_note_context
InNoteContext(st, node) ==
    st.note_context_active \/ is_note_start(node.text) \/ st.block.open

\* ensure_note_block(base_indent)
ensure_note_block(st, base_indent) ==
    IF st.block.open THEN st
    ELSE [st EXCEPT !.block = [open |-> TRUE, content |-> <<>>],
                    !.base = <<base_indent>>]

\* what one processed child of a note line adds to the content of the block
NoteChildContent(child) ==
    IF child.type = "explanation"
    THEN <<[Block("illustration") EXCEPT !.content = child.content]>>
    ELSE IF child.type = "note" THEN child.content \o child.children
    ELSE <<child>>

NoteChildrenContent(processed_children) ==
    JoinAll([k \in DOMAIN processed_children |->
                NoteChildContent(processed_children[k])])

EndingDivider(ending) ==
    IF ending # None THEN <<SentenceDivider(ending)>> ELSE <<>>

\* the branch of a note: its content, its processed children and its
\* sentence ending go to the note block
NoteStep(st, processed, processed_children) ==
    [st EXCEPT
        !.block.content = @ \o processed.node.content
                            \o NoteChildrenContent(processed_children)
                            \o EndingDivider(processed.sentence_ending),
        !.note_context_active = TRUE]

\* the branch of an illustration inside a note: the node goes to the content
\* of the note block, with its processed children
NoteIllustrationStep(st, processed, processed_children) ==
    [st EXCEPT
        !.block.content =
            @ \o <<[processed.node EXCEPT !.children =
                        IF processed_children = <<>> THEN @
                        ELSE processed_children]>>
              \o EndingDivider(processed.sentence_ending)]

\* the children of an idiomatics node: the content of the explanations goes
\* to the node's content
IdiomaticsFolded(block) ==
    IF block.type # "idiomatics" THEN block
    ELSE [block EXCEPT
            !.content = @ \o JoinAll(
                [k \in DOMAIN block.children |->
                    IF block.children[k].type = "explanation"
                    THEN block.children[k].content ELSE <<>>]),
            !.children = SelectSeq(@, LAMBDA child : child.type # "explanation")]

\* the branch of every other node: the processed child lines are attached to
\* the node after the children classify_node gave it
OtherStep(st, processed, new_children) ==
    [st EXCEPT
        !.result =
            AppendExtras(
                append_processed(
                    @,
                    IdiomaticsFolded(
                        [processed.node EXCEPT !.children = @ \o new_children]),
                    processed.sentence_ending),
                processed.extra_nodes)]

RECURSIVE process_final_tree(_, _, _)

\* the processed child lines, when classify_node has left the node any
ProcessedChildren(node, processed, in_note_context, note_base_indent) ==
    IF node.children = <<>> \/ processed.drops_children THEN <<>>
    ELSE process_final_tree(node.children, in_note_context, note_base_indent)

\* one iteration of `for node in tree`, after the resets
FinalBranch(st, node, processed, ctx) ==
    IF processed.node.type = "note"
    THEN NoteStep(ensure_note_block(st, node.indent), processed,
                  ProcessedChildren(node, processed, TRUE, <<node.indent>>))
    ELSE IF /\ processed.node.type = "illustration"
            /\ st.note_context_active \/ st.block.open
    THEN NoteIllustrationStep(
            ensure_note_block(st, IF st.base # <<>> THEN st.base[1] ELSE node.indent),
            processed,
            ProcessedChildren(node, processed, TRUE, <<node.indent>>))
    ELSE OtherStep(flush_note_block(st), processed,
                   ProcessedChildren(node, processed, ctx, <<>>))

FinalClassified(st, node) ==
    FinalBranch(st, node,
                WithNormalizedExplanations(
                    classify_node(node, InNoteContext(st, node))),
                InNoteContext(st, node))

FinalStep(st, node) == FinalClassified(AfterReset(st, node), node)

RECURSIVE FinalLoop(_, _, _)
FinalLoop(tree, k, st) ==
    IF k > Len(tree) THEN st
    ELSE FinalLoop(tree, k + 1, FinalStep(st, tree[k]))

\* process_final_tree(tree, in_note_context, note_base_indent)
process_final_tree(tree, in_note_context, note_base_indent) ==
    flush_note_block(
        FinalLoop(tree, 1,
                  [result |-> <<>>,
                   block |-> NoBlock,
                   base |-> note_base_indent,
                   note_context_active |-> in_note_context])).result

InitFinal ==
    /\ IdleTree /\ IdlePipe /\ IdleLabel /\ IdleStruct /\ IdleNorm /\ IdleTok
    /\ IdleTilde /\ IdleImport /\ IdleStitch /\ IdleClass /\ IdleRest
    /\ fbody = <<>> /\ fpc = "build"

\* build_raw_tree reads one more body line
ReadFinalLine ==
    /\ fpc = "build"
    /\ Len(input) < MaxFinalLines
    /\ \E line \in FinalLineSet : BuildStep(line)
    /\ UNCHANGED <<pipeVars, labelVars, structVars, normVars, tokVars,
                   tildeVars, importVars, lateVars>>

\* stitched_tree = stitch_multiline_italic_blocks(raw_tree, ...);
\* process_final_tree(stitched_tree)
ProcessFinalTree ==
    /\ fpc = "build"
    /\ fbody' = process_final_tree(
                    stitch_multiline_italic_blocks(
                        RawForest(nodes, ChildrenOf(nodes, 0)), FALSE).result,
                    FALSE, <<>>)
    /\ fpc' = "done"
    /\ UNCHANGED <<treeVars, pipeVars, labelVars, structVars, normVars, tokVars,
                   tildeVars, importVars, stitchVars, classVars, restVars>>

NextFinal == ReadFinalLine \/ ProcessFinalTree

SpecFinal == InitFinal /\ [][NextFinal]_vars

\* the nodes of a list and of everything under them, the nodes held in the
\* content of a note block included
RECURSIVE AllBlocks(_)
AllBlocks(blocks) ==
    UNION { {blocks[k]}
            \cup (IF "children" \in DOMAIN blocks[k]
                  THEN AllBlocks(blocks[k].children) \cup AllBlocks(blocks[k].content)
                  ELSE {}) : k \in DOMAIN blocks }

\* C26: no SentenceDivider node of the parsed body has children: the child
\* lines of a raw node are attached only to a node of another variant.
C26_DividerHasNoChildren ==
    fpc = "done" =>
        \A block \in AllBlocks(fbody) :
            (block.type = "sentence_divider" /\ "children" \in DOMAIN block)
                => block.children = <<>>

\* the child lines of a numbered line whose remainder holds a word are
\* attached to a translation
WordSenseTakesChildren ==
    (fpc = "done" /\ Len(nodes) = 2 /\ nodes[2].parent = 1
        /\ nodes[1].text = <<"1", ".", " ", "a">>) =>
            /\ fbody[1].type = "translation"
            /\ fbody[1].children # <<>>

----------------------------------------------------------------------------
(* normalize_article and the article object of its caller                  *)
(* (parser_v3/normalization.py, parser_v3/templates.py)                    *)
(*                                                                         *)
(* normalised_article = dict(article) copies the keys of the article; the  *)
(* headword of the copy is the object the argument holds, and              *)
(* _expand_headword_node assigns node["lemmas"] on it.  The body of the    *)
(* copy is a list of its own, of blocks copied by _transform_block.        *)

\* parsed = legacy_parser.parse_article(context.raw_text), for a head line
InitCopy ==
    /\ \E line \in HeadLines : argument = legacy_parse_head_article(<<line>>)
    /\ returned = <<>>
    /\ kpc = "start"
    /\ IdleTree /\ IdlePipe /\ IdleLabel /\ IdleStruct /\ IdleNorm /\ IdleTok
    /\ IdleTilde /\ IdleImport /\ IdleStitch /\ IdleClass /\ IdleFinal
    /\ IdleSplit /\ IdleLegacy

\* return normalize_article(parsed, template_name=self.name): the call, as
\* the caller sees it: the article returned and the article it handed in,
\* whose headword is the headword of the article returned
NormalizeArticle ==
    /\ kpc = "start"
    /\ returned' = normalize_headed_article(argument)
    /\ argument' = [argument EXCEPT !.headword = returned'.headword]
    /\ kpc' = "done"
    /\ UNCHANGED <<treeVars, pipeVars, labelVars, structVars, normVars, tokVars,
                   tildeVars, importVars, stitchVars, classVars, finalVars,
                   splitVars, legacyVars>>

NextCopy == NormalizeArticle

SpecCopy == InitCopy /\ [][NextCopy]_vars

\* C27: normalize_article leaves its argument unchanged: after the call the
\* headword, the body blocks, their segments and their children of the
\* article handed in hold the values they held before the call.
C27_ArgumentUnchanged == [][argument' = argument]_vars

\* a headword without a root bar keeps its lemma list
LemmasWithoutBarUnchanged ==
    [][~Contains(argument.headword.raw_form, "|")
        => argument'.headword.lemmas = argument.headword.lemmas]_vars

----------------------------------------------------------------------------
(* split_articles_by_empty_lines (parser_v3/pipeline.py and                *)
(* parser_v2.0_clean.py): the chunks of a dictionary file                  *)

\* bound on the number of characters of the file content
MaxContent == 6

ContentAlphabet == {"a", "$", " ", "\n"}

Contents == UNION { [1..n -> ContentAlphabet] : n \in 0..MaxContent }

\* '\n'.join(lines)
RECURSIVE JoinLines(_)
JoinLines(lines) ==
    IF lines = <<>> THEN <<>>
    ELSE IF Len(lines) = 1 THEN lines[1]
    ELSE lines[1] \o <<"\n">> \o JoinLines(Tail(lines))

\* articles.append('\n'.join(current)) when current is not empty
WithCurrent(chunks, current) ==
    IF current = <<>> THEN chunks ELSE Append(chunks, JoinLines(current))

\* the loop body that goes on skipping "$" lines after the first content line
SplitLineStepSkippingMetadata(st, line) ==
    IF Strip(line) = <<>> \/ StartsWith(Strip(line), <<"$">>)
    THEN [st EXCEPT !.articles = WithCurrent(st.articles, st.current),
                    !.current = <<>>]
    ELSE [st EXCEPT !.current = Append(st.current, line)]

\* the body of the loop over the lines
SplitLineStep(st, line) ==
    IF /\ st.skip_initial_metadata
       /\ Strip(line) = <<>> \/ StartsWith(Strip(line), <<"$">>)
    THEN st
    ELSE IF Strip(line) = <<>>
    THEN [skip_initial_metadata |-> FALSE,
          articles |-> WithCurrent(st.articles, st.current),
          current |-> <<>>]
    ELSE [skip_initial_metadata |-> FALSE,
          articles |-> st.articles,
          current |-> Append(st.current, line)]

RECURSIVE SplitLineLoop(_, _)
SplitLineLoop(lines, st) ==
    IF lines = <<>> THEN WithCurrent(st.articles, st.current)
    ELSE SplitLineLoop(Tail(lines), SplitLineStep(st, Head(lines)))

split_articles_by_empty_lines(text) ==
    SplitLineLoop(Split(text, "\n"),
                  [skip_initial_metadata |-> TRUE, articles |-> <<>>,
                   current |-> <<>>])

InitSplit ==
    /\ source_text \in Contents
    /\ articles = <<>>
    /\ apc = "start"
    /\ IdleTree /\ IdlePipe /\ IdleLabel /\ IdleStruct /\ IdleNorm /\ IdleTok
    /\ IdleTilde /\ IdleImport /\ IdleStitch /\ IdleClass /\ IdleFinal
    /\ IdleCopy /\ IdleLegacy

\* articles = split_articles_by_empty_lines(content)
SplitArticles ==
    /\ apc = "start"
    /\ articles' = split_articles_by_empty_lines(source_text)
    /\ apc' = "done"
    /\ UNCHANGED source_text
    /\ UNCHANGED <<treeVars, pipeVars, labelVars, structVars, normVars, tokVars,
                   tildeVars, importVars, stitchVars, classVars, finalVars,
                   copyVars, legacyVars>>

NextSplit == SplitArticles

SpecSplit == InitSplit /\ [][NextSplit]_vars

\* the lines of the file, the blank ones and the ones that open with "$"
SourceLines == Split(source_text, "\n")
IsBlankLine(k) == \A n \in DOMAIN SourceLines[k] : IsSpace(SourceLines[k][n])
IsMetadataLine(k) ==
    \E n \in DOMAIN SourceLines[k] :
        /\ SourceLines[k][n] = "$"
        /\ \A m \in 1..(n - 1) : IsSpace(SourceLines[k][m])

\* the first content line: the first line neither blank nor opened by "$"
\* (one past the last line when there is none)
FirstContentLine ==
    SetMin({k \in DOMAIN SourceLines : ~IsBlankLine(k) /\ ~IsMetadataLine(k)}
            \cup {Len(SourceLines) + 1})

\* the lines that open a maximal run of non-blank lines, from the first
\* content line on, and the line that closes the run opened at k
RunStarts ==
    {k \in FirstContentLine..Len(SourceLines) :
        ~IsBlankLine(k) /\ (k = FirstContentLine \/ IsBlankLine(k - 1))}
RunEnd(k) ==
    SetMin({n \in k..Len(SourceLines) :
                n = Len(SourceLines) \/ IsBlankLine(n + 1)})

\* the n-th run, in source order
NthRunStart(n) ==
    CHOOSE k \in RunStarts : Cardinality({m \in RunStarts : m < k}) = n - 1

\* C28: split_articles_by_empty_lines returns, in source order, exactly the
\* maximal runs of consecutive non-blank lines that follow the leading
\* prefix of blank and "$" lines: no line after the first content line is
\* dropped, duplicated or moved, a later "$" line included.
C28_ChunksAreMaximalRuns ==
    apc = "done" =>
        /\ Len(articles) = Cardinality(RunStarts)
        /\ \A n \in DOMAIN articles :
                articles[n] = JoinLines(SubSeq(SourceLines, NthRunStart(n),
                                               RunEnd(NthRunStart(n))))

\* no chunk is empty or holds a blank line
NoBlankInChunk ==
    apc = "done" =>
        \A n \in DOMAIN articles :
            \A line \in {Split(articles[n], "\n")[k] :
                            k \in DOMAIN Split(articles[n], "\n")} :
                Strip(line) # <<>>

\* a "$" line and a blank line are skipped, then two chunks are returned,
\* the second one a "$" line
C28_Witness ==
    /\ apc = "done"
    /\ FirstContentLine > 1
    /\ Len(articles) = 2
    /\ StartsWith(articles[2], <<"$">>)

----------------------------------------------------------------------------
(* Escaped underscores: parse_rich_text of text_parser.py and of the       *)
(* legacy parser (parser_v2.0_clean.py) on the same text                   *)

\* bound on the length of a text with escaped underscores
MaxEscape == 5

EscapeAlphabet == {"_", "\\", "a", ","}

EscapeTexts == UNION {[1..n -> EscapeAlphabet] : n \in 1..MaxEscape}

\* the state before the two calls on a text
BeforeRichText(texts, modes) ==
    /\ ttext \in texts
    /\ tmode \in modes
    /\ tsegs = <<>>
    /\ tpc = "start"
    /\ lsegs = <<>>
    /\ lpc = "start"
    /\ IdleTree /\ IdlePipe /\ IdleLabel /\ IdleStruct /\ IdleNorm
    /\ IdleTilde /\ IdleImport /\ IdleStitch /\ IdleClass /\ IdleFinal
    /\ IdleCopy /\ IdleSplit

InitEscape ==
    BeforeRichText(EscapeTexts,
                   [preserve_punctuation : BOOLEAN, italic_open : BOOLEAN])

\* legacy_parser.parse_rich_text(text, preserve_punctuation, italic_open)
TokenizeLegacy ==
    /\ lpc = "start"
    /\ lsegs' = legacy_parse_rich_text(ttext, tmode.preserve_punctuation,
                                       tmode.italic_open)
    /\ lpc' = "done"
    /\ UNCHANGED <<treeVars, pipeVars, labelVars, structVars, normVars, tokVars,
                   tildeVars, importVars, stitchVars, classVars, finalVars,
                   copyVars, splitVars>>

NextEscape == Tokenize \/ TokenizeLegacy

SpecEscape == InitEscape /\ [][NextEscape]_vars

\* the characters of the text segments with their styles, in order
StyledChars(segs) ==
    JoinAll([k \in DOMAIN segs |->
        IF segs[k].type = "text"
        THEN [n \in DOMAIN segs[k].text |-> <<segs[k].text[n], segs[k].style>>]
        ELSE <<>>])

\* the style the unescaped underscores before position i give
StyleAt(text, italic_open, i) ==
    IF italic_open = (Cardinality({p \in 1..(i - 1) : TogglesItalic(text, p)}) % 2 = 0)
    THEN "italic" ELSE "regular"

\* every character other than an unescaped underscore (and, in normal mode,
\* a divider) with the style the unescaped underscores before it give
LiteralStyledChars(text, mode) ==
    JoinAll([i \in DOMAIN text |->
        IF TogglesItalic(text, i) THEN <<>>
        ELSE IF ~mode.preserve_punctuation
                /\ text[i] \in {",", ";", ":", ".", "!", "?"}
        THEN <<>>
        ELSE <<<<text[i], StyleAt(text, mode.italic_open, i)>>>>])

EscapedKept(text, mode, segs) == StyledChars(segs) = LiteralStyledChars(text, mode)

\* C29: an underscore preceded by a backslash never toggles the italic state
\* and is kept as literal text, in both modes of parse_rich_text of both
\* parsers: the style of every character of a text segment is given by the
\* number of unescaped underscores before it.
C29_EscapedUnderscoreIsLiteral ==
    /\ tpc = "done" => EscapedKept(ttext, tmode, tsegs)
    /\ lpc = "done" => EscapedKept(ttext, tmode, lsegs)

\* the normal mode of text_parser keeps every escaped underscore
TextParserNormalKeepsEscaped ==
    (tpc = "done" /\ ~tmode.preserve_punctuation)
        => EscapedKept(ttext, tmode, tsegs)

\* the preserve mode of both parsers keeps it in every text that is not
\* wholly wrapped in underscores (for the legacy parser: that does not open
\* with one)
PreserveKeepsEscapedUnlessWrapped ==
    /\ (tpc = "done" /\ tmode.preserve_punctuation
            /\ ~(Len(ttext) > 2 /\ ttext[1] = "_" /\ ttext[Len(ttext)] = "_"))
        => EscapedKept(ttext, tmode, tsegs)
    /\ (lpc = "done" /\ tmode.preserve_punctuation /\ ttext[1] # "_")
        => EscapedKept(ttext, tmode, lsegs)

\* the normal mode of the legacy parser on a text without escaped underscore
LegacyNormalWithoutEscape ==
    (lpc = "done" /\ ~tmode.preserve_punctuation
        /\ \A i \in DOMAIN ttext : ttext[i] = "_" => TogglesItalic(ttext, i))
        => EscapedKept(ttext, tmode, lsegs)

----------------------------------------------------------------------------
(* Groups in parentheses in normal mode: parse_rich_text of text_parser.py *)
(* and of the legacy parser on the same text; the grave is written "^"     *)

\* bound on the length of a text with groups in parentheses
MaxParen == 5

ParenAlphabet == {"(", ")", "a", "^", " ", "_"}

ParenTexts == UNION {[1..n -> ParenAlphabet] : n \in 1..MaxParen}

InitParen ==
    BeforeRichText(ParenTexts,
                   [preserve_punctuation : {FALSE}, italic_open : BOOLEAN])

NextParen == Tokenize \/ TokenizeLegacy

SpecParen == InitParen /\ [][NextParen]_vars

\* the segments without their boundaries and styles: the characters of the
\* text segments and the Note segments, in order
Flattened(segs) ==
    JoinAll([k \in DOMAIN segs |->
        IF segs[k].type = "text"
        THEN [n \in DOMAIN segs[k].text |-> <<"char", <<segs[k].text[n]>>>>]
        ELSE <<<<segs[k].type, segs[k].text>>>>])

\* the inner content of a group that stays literal: at most one character
\* apart from blanks, or a grave at its start
StaysLiteral(inner) ==
    Len(Strip(inner)) <= 1 \/ StartsWith(LStrip(inner), <<"^">>)

\* what the text gives, read from position i on: a Note for a group in
\* parentheses, its characters for a group that stays literal, nothing for
\* an unescaped underscore outside a group, the character otherwise
RECURSIVE GroupsRead(_, _)
GroupsRead(text, i) ==
    IF i > Len(text) THEN <<>>
    ELSE IF text[i] = "(" /\ Find(text, ")", i + 1) # 0
    THEN IF StaysLiteral(SubSeq(text, i + 1, Find(text, ")", i + 1) - 1))
         THEN [n \in 1..(Find(text, ")", i + 1) - i + 1) |->
                    <<"char", <<text[i + n - 1]>>>>]
                \o GroupsRead(text, Find(text, ")", i + 1) + 1)
         ELSE <<<<"note", SubSeq(text, i + 1, Find(text, ")", i + 1) - 1)>>>>
                \o GroupsRead(text, Find(text, ")", i + 1) + 1)
    ELSE IF TogglesItalic(text, i) THEN GroupsRead(text, i + 1)
    ELSE <<<<"char", <<text[i]>>>>>> \o GroupsRead(text, i + 1)

GroupsKept(text, segs) == Flattened(segs) = GroupsRead(text, 1)

\* C30: in normal mode a group in parentheses with a closing parenthesis
\* yields a Note segment holding the inner text, unless the inner content
\* is a single character or starts with a grave: then the whole group,
\* parentheses included, stays literal text and no Note is emitted for it.
C30_GroupIsNoteUnlessShortOrGrave ==
    /\ tpc = "done" => GroupsKept(ttext, tsegs)
    /\ lpc = "done" => GroupsKept(ttext, lsegs)

\* the number of groups in parentheses read from position i on
RECURSIVE GroupCount(_, _)
GroupCount(text, i) ==
    IF i > Len(text) THEN 0
    ELSE IF text[i] = "(" /\ Find(text, ")", i + 1) # 0
    THEN 1 + GroupCount(text, Find(text, ")", i + 1) + 1)
    ELSE GroupCount(text, i + 1)

\* the legacy parser follows the rule on the texts whose closing parentheses
\* all close a group that is not empty
LegacyGroupsWithoutStrayClose ==
    (lpc = "done"
        /\ Cardinality({i \in DOMAIN ttext : ttext[i] = ")"}) = GroupCount(ttext, 1)
        /\ ~HasSubSeq(ttext, <<"(", ")">>))
        => GroupsKept(ttext, lsegs)

\* text_parser follows it on the texts without a grave and without an
\* underscore inside a group
TextParserGroupsWithoutGrave ==
    (tpc = "done" /\ ~Contains(ttext, "^")
        /\ \A i \in DOMAIN ttext :
              ttext[i] = "_" => \A p \in 1..(i - 1) :
                    ttext[p] = "(" => \E q \in (p + 1)..(i - 1) : ttext[q] = ")")
        => GroupsKept(ttext, tsegs)

=============================================================================
